---- MODULE Spec2Model ----
(***************************************************************************)
(* Terrain-destruction simulation: the terrain grid, the quadtree over it, *)
(* the effects and the per-frame update (src/src/mainstate.rs,             *)
(* src/src/quadtree.rs, src/src/effect.rs, src/src/noisegenerator.rs,      *)
(* src/src/main.rs).                                                       *)
(*                                                                         *)
(* Numbers.  Lengths are whole screen units, durabilities and damages are  *)
(* whole numbers (the code only uses 0, 1, 8, 5 and 10), time is counted   *)
(* in whole seconds of std::time::Instant, and a heading is a whole number *)
(* of quarter turns (pi/2), kept modulo a full turn: cos and sin are then  *)
(* exact.  A random draw over a real interval is a draw over the quarter   *)
(* turns that lie in the interval.                                         *)
(***************************************************************************)
EXTENDS Integers, Sequences, FiniteSets, TLC

(***************************************************************************)
(* Configuration: the globals of main.rs after update_constants for the    *)
(* command line --width 500 --height 300 --cellsize 100 --delta 50: a     *)
(* grid of 5 x 3 cells of side 100.                                        *)
(***************************************************************************)
MIN_WIDTH == 500
MIN_HEIGHT == 300
MIN_DELTA == 15
MIN_SIZE_CELL == 5

ArgWidth == MIN_WIDTH
ArgHeight == MIN_HEIGHT
ArgCellSize == 100
ArgDelta == 50

Max(a, b) == IF a >= b THEN a ELSE b
Abs(a) == IF a >= 0 THEN a ELSE 0 - a

\* main, lines 168-194: a value below its minimum is replaced by the minimum
Clamp(value, minimum) == IF value < minimum THEN minimum ELSE Max(value, minimum)

\* update_constants: the globals it writes.  floor(width / cell_size) is the
\* whole quotient; FIXED_DELTA is 1 / TICK_RATE seconds
update_constants(width, height, delta, cell_size) ==
    LET size == Max(cell_size, MIN_SIZE_CELL)
        adjusted_width == (width \div size) * size
        adjusted_height == (height \div size) * size
    IN  [SCREEN_WIDTH |-> adjusted_width,
         SCREEN_HEIGHT |-> adjusted_height,
         TICK_RATE |-> Max(delta, MIN_DELTA),
         TERRAIN_WIDTH |-> adjusted_width \div size,
         TERRAIN_HEIGHT |-> adjusted_height \div size,
         CELL_SIZE |-> size]

\* main up to the ContextBuilder: the clamps, then update_constants
Startup(a) ==
    update_constants(Clamp(a.width, MIN_WIDTH), Clamp(a.height, MIN_HEIGHT),
                     Clamp(a.delta, MIN_DELTA), Clamp(a.cellsize, MIN_SIZE_CELL))

\* the command line of the simulation runs, and the globals it gives
CommandLine ==
    [width |-> ArgWidth, height |-> ArgHeight, delta |-> ArgDelta, cellsize |-> ArgCellSize]
Globals == Startup(CommandLine)

read_cell_size == Globals.CELL_SIZE
read_screen_width == Globals.SCREEN_WIDTH
read_screen_height == Globals.SCREEN_HEIGHT
read_terrain_width == Globals.TERRAIN_WIDTH
read_terrain_height == Globals.TERRAIN_HEIGHT
\* ticks per second; read_delta() is 1 / TickRate seconds
TickRate == Globals.TICK_RATE

(***************************************************************************)
(* Bounds of the model.                                                    *)
(***************************************************************************)
\* latest reading of the clock, in seconds
MaxClock == 3
\* mouse clicks on the canvas (spawn_effect calls) in one run
MaxSpawn == 1
\* Reset clicks in one run
MaxReset == 1
\* frames (update calls) in one run
MaxTicks == 2
\* worker threads of the rayon pool
Threads == 2
\* effects alive when a frame starts
MaxActive == 2
\* direct calls of damage_terrain_at in one run of SpecDamage
MaxCalls == 3

Materials == {"Air", "Grass", "Rock"}
EffectTypes == {"Bubbles", "MoreBubbles", "Lightning"}
NoiseTypes == {"Perlin", "Fbm", "Simplex"}

\* quarter turns in a full turn (TAU) and in a half turn (PI)
TAU == 4
PI == 2

XS == 0 .. (read_terrain_width - 1)
YS == 0 .. (read_terrain_height - 1)

(***************************************************************************)
(* Noise (src/src/noisegenerator.rs).  The noise crate is a deterministic  *)
(* function of the algorithm, its seed and the coordinate; it is modelled  *)
(* by a fixed hash with values in tenths, -10 .. 10.                       *)
(***************************************************************************)
\* "as u32" keeps the low bits of the i64 seed.  Widths are scaled down: the
\* low word is 16 bits wide here, the seed itself may be wider.
U32 == 65536
AsU32(n) == n % U32

AlgorithmSalt(t) == CASE t = "Perlin" -> 0 [] t = "Fbm" -> 4 [] t = "Simplex" -> 9

NoiseFn(t, s, x, y) == ((s * 5 + x * 3 + y * 5 + x * y + AlgorithmSalt(t)) % 21) - 10

\* NoiseGenerator::new
NoiseGenerator_new(noise_type, s) ==
    [seed |-> s, fbm |-> s, simplex |-> s, perlin |-> s, current_type |-> noise_type]

\* NoiseGenerator::generate: only the current algorithm is re-seeded
NoiseGenerator_generate(g, s) ==
    CASE g.current_type = "Fbm" -> [g EXCEPT !.seed = s, !.fbm = s]
      [] g.current_type = "Perlin" -> [g EXCEPT !.seed = s, !.perlin = s]
      [] g.current_type = "Simplex" -> [g EXCEPT !.seed = s, !.simplex = s]

\* NoiseGenerator::get at the grid cell (x, y), i.e. at (x * scale, y * scale)
NoiseGenerator_get(g, x, y) ==
    CASE g.current_type = "Fbm" -> NoiseFn("Fbm", g.fbm, x, y)
      [] g.current_type = "Perlin" -> NoiseFn("Perlin", g.perlin, x, y)
      [] g.current_type = "Simplex" -> NoiseFn("Simplex", g.simplex, x, y)

\* NoiseGenerator::set_noise_type
NoiseGenerator_set_noise_type(g, noise_type) == [g EXCEPT !.current_type = noise_type]

(***************************************************************************)
(* Quadtree (src/src/quadtree.rs).  An Option<Box<QuadTreeNode>> is the    *)
(* empty sequence (None) or a one-element sequence (Some).                 *)
(***************************************************************************)
Rect_new(x, y, w, h) == [x |-> x, y |-> y, w |-> w, h |-> h]

QuadTreeItem(x, y, tx, ty) == [x |-> x, y |-> y, tx |-> tx, ty |-> ty]

QuadTreeNode_new(boundary, capacity) ==
    [boundary |-> boundary, capacity |-> capacity, items |-> <<>>, divided |-> FALSE,
     northeast |-> <<>>, northwest |-> <<>>, southeast |-> <<>>, southwest |-> <<>>]

\* a containment test that leaves out the far edges
contains_point_half_open(rect, x, y) ==
    /\ x >= rect.x
    /\ x < rect.x + rect.w
    /\ y >= rect.y
    /\ y < rect.y + rect.h

contains_point(rect, x, y) ==
    /\ x >= rect.x
    /\ x <= rect.x + rect.w
    /\ y >= rect.y
    /\ y <= rect.y + rect.h

\* an overlap test that takes rectangles that only touch as apart
intersects_strict(a, b) ==
    ~ (\/ a.x >= b.x + b.w
       \/ a.x + a.w <= b.x
       \/ a.y >= b.y + b.h
       \/ a.y + a.h <= b.y)

intersects(a, b) ==
    ~ (\/ a.x > b.x + b.w
       \/ a.x + a.w < b.x
       \/ a.y > b.y + b.h
       \/ a.y + a.h < b.y)

\* a subdivision whose quadrants hold one item more than their parent
subdivide_roomier(node) ==
    LET x == node.boundary.x
        y == node.boundary.y
        w == node.boundary.w \div 2
        h == node.boundary.h \div 2
    IN  [node EXCEPT
           !.northeast = <<QuadTreeNode_new(Rect_new(x + w, y, w, h), node.capacity + 1)>>,
           !.northwest = <<QuadTreeNode_new(Rect_new(x, y, w, h), node.capacity + 1)>>,
           !.southeast = <<QuadTreeNode_new(Rect_new(x + w, y + h, w, h), node.capacity + 1)>>,
           !.southwest = <<QuadTreeNode_new(Rect_new(x, y + h, w, h), node.capacity + 1)>>,
           !.divided = TRUE]

\* halves are exact for the boundaries the model subdivides
subdivide(node) ==
    LET x == node.boundary.x
        y == node.boundary.y
        w == node.boundary.w \div 2
        h == node.boundary.h \div 2
    IN  [node EXCEPT
           !.northeast = <<QuadTreeNode_new(Rect_new(x + w, y, w, h), node.capacity)>>,
           !.northwest = <<QuadTreeNode_new(Rect_new(x, y, w, h), node.capacity)>>,
           !.southeast = <<QuadTreeNode_new(Rect_new(x + w, y + h, w, h), node.capacity)>>,
           !.southwest = <<QuadTreeNode_new(Rect_new(x, y + h, w, h), node.capacity)>>,
           !.divided = TRUE]

RECURSIVE QuadTreeNode_insert_every(_, _)
\* an insert that does not return after the first quadrant that accepts
QuadTreeNode_insert_every(node, item) ==
    IF ~ contains_point(node.boundary, item.x, item.y)
    THEN [node |-> node, ok |-> FALSE]
    ELSE IF Len(node.items) < node.capacity
    THEN [node |-> [node EXCEPT !.items = Append(@, item)], ok |-> TRUE]
    ELSE
      LET n0 == IF ~ node.divided THEN subdivide(node) ELSE node
          rne == QuadTreeNode_insert_every(n0.northeast[1], item)
          rnw == QuadTreeNode_insert_every(n0.northwest[1], item)
          rse == QuadTreeNode_insert_every(n0.southeast[1], item)
          rsw == QuadTreeNode_insert_every(n0.southwest[1], item)
      IN  [node |-> [n0 EXCEPT !.northeast = <<rne.node>>, !.northwest = <<rnw.node>>,
                               !.southeast = <<rse.node>>, !.southwest = <<rsw.node>>],
           ok |-> rne.ok \/ rnw.ok \/ rse.ok \/ rsw.ok]

RECURSIVE QuadTreeNode_insert(_, _)
\* the node after the call and the value returned
QuadTreeNode_insert(node, item) ==
    IF ~ contains_point(node.boundary, item.x, item.y)
    THEN [node |-> node, ok |-> FALSE]
    ELSE IF Len(node.items) < node.capacity
    THEN [node |-> [node EXCEPT !.items = Append(@, item)], ok |-> TRUE]
    ELSE
      LET n0 == IF ~ node.divided THEN subdivide(node) ELSE node
          rne == QuadTreeNode_insert(n0.northeast[1], item)
          n1 == [n0 EXCEPT !.northeast = <<rne.node>>]
      IN  IF rne.ok THEN [node |-> n1, ok |-> TRUE]
          ELSE
            LET rnw == QuadTreeNode_insert(n1.northwest[1], item)
                n2 == [n1 EXCEPT !.northwest = <<rnw.node>>]
            IN  IF rnw.ok THEN [node |-> n2, ok |-> TRUE]
                ELSE
                  LET rse == QuadTreeNode_insert(n2.southeast[1], item)
                      n3 == [n2 EXCEPT !.southeast = <<rse.node>>]
                  IN  IF rse.ok THEN [node |-> n3, ok |-> TRUE]
                      ELSE
                        LET rsw == QuadTreeNode_insert(n3.southwest[1], item)
                            n4 == [n3 EXCEPT !.southwest = <<rsw.node>>]
                        IN  [node |-> n4, ok |-> rsw.ok]

RECURSIVE ItemsIn(_, _, _)
\* the items of a node's own list that lie in range, in list order
ItemsIn(items, range, i) ==
    IF i > Len(items) THEN <<>>
    ELSE (IF contains_point(range, items[i].x, items[i].y) THEN <<items[i]>> ELSE <<>>)
         \o ItemsIn(items, range, i + 1)

RECURSIVE QuadTreeNode_query(_, _)
\* the items pushed onto found, in push order
QuadTreeNode_query(node, range) ==
    IF ~ intersects(node.boundary, range) THEN <<>>
    ELSE ItemsIn(node.items, range, 1)
         \o (IF node.divided
             THEN QuadTreeNode_query(node.northeast[1], range)
                  \o QuadTreeNode_query(node.northwest[1], range)
                  \o QuadTreeNode_query(node.southeast[1], range)
                  \o QuadTreeNode_query(node.southwest[1], range)
             ELSE <<>>)

QuadTree_new(boundary, capacity) == [root |-> QuadTreeNode_new(boundary, capacity)]

QuadTree_insert(tree, item) == [root |-> QuadTreeNode_insert(tree.root, item).node]

QuadTree_query(tree, range) == QuadTreeNode_query(tree.root, range)


(***************************************************************************)
(* Terrain (src/src/mainstate.rs).                                         *)
(***************************************************************************)
Cell(material, durability) == [material |-> material, durability |-> durability]

\* the thresholds -0.2 and 0.2 in tenths
LowThreshold == 0 - 2
HighThreshold == 2
GrassDurability == 1
RockDurability == 8

\* lines 276-282: material and durability from the noise value
Classify(val) ==
    IF val < LowThreshold THEN Cell("Air", 0)
    ELSE IF val < HighThreshold THEN Cell("Grass", GrassDurability)
    ELSE Cell("Rock", RockDurability)

\* the k-th cell (k from 0) of the loops "for tx in 0..w { for ty in 0..h {"
CellAt(k) == <<k \div read_terrain_height, k % read_terrain_height>>
NumCells == read_terrain_width * read_terrain_height

\* center of a cell on one axis
Center(t) == t * read_cell_size + read_cell_size \div 2

TerrainBoundary ==
    Rect_new(0, 0, read_terrain_width * read_cell_size, read_terrain_height * read_cell_size)

GenerateCapacity == 8
RebuildCapacity == 8

RECURSIVE InsertAllCells(_, _)
\* generate_terrain, lines 313-322: every cell of the grid is inserted
InsertAllCells(tree, k) ==
    IF k >= NumCells THEN tree
    ELSE LET tx == CellAt(k)[1]
             ty == CellAt(k)[2]
         IN  InsertAllCells(
                 QuadTree_insert(tree, QuadTreeItem(Center(tx), Center(ty), tx, ty)), k + 1)

\* an index refresh that forgets the material test
InsertNonAirCells_all(tree, t, k) == InsertAllCells(tree, k)

RECURSIVE InsertNonAirCells_rock(_, _, _)
\* an index refresh that inserts the Rock cells only
InsertNonAirCells_rock(tree, t, k) ==
    IF k >= NumCells THEN tree
    ELSE LET tx == CellAt(k)[1]
             ty == CellAt(k)[2]
         IN  InsertNonAirCells_rock(
                 IF t[tx][ty].material = "Rock"
                 THEN QuadTree_insert(tree, QuadTreeItem(Center(tx), Center(ty), tx, ty))
                 ELSE tree,
                 t, k + 1)

RECURSIVE InsertNonAirCells(_, _, _)
\* update_quadtree_if_needed, lines 598-615: only the cells that are not Air
InsertNonAirCells(tree, t, k) ==
    IF k >= NumCells THEN tree
    ELSE LET tx == CellAt(k)[1]
             ty == CellAt(k)[2]
         IN  InsertNonAirCells(
                 IF t[tx][ty].material # "Air"
                 THEN QuadTree_insert(tree, QuadTreeItem(Center(tx), Center(ty), tx, ty))
                 ELSE tree,
                 t, k + 1)

\* a generation that draws its seed also when one is configured
ActualSeed_drawn(cfg_seed, drawn) == drawn

\* the seed handed to the noise generator (lines 254-258)
ActualSeed(cfg_seed, drawn) == IF cfg_seed = 0 - 1 THEN drawn ELSE AsU32(cfg_seed)

\* the grid of generate_terrain (lines 269-285) for a seeded generator
GeneratedTerrain(g) ==
    [x \in XS |-> [y \in YS |-> Classify(NoiseGenerator_get(g, x, y))]]

\* the index of generate_terrain (lines 306-322)
GeneratedQuadTree == InsertAllCells(QuadTree_new(TerrainBoundary, GenerateCapacity), 0)

\* update_quadtree_if_needed: the index and the flag after the call
update_quadtree_if_needed(tree, dirty, t) ==
    IF dirty
    THEN [tree |-> InsertNonAirCells(QuadTree_new(TerrainBoundary, RebuildCapacity), t, 0),
          dirty |-> FALSE]
    ELSE [tree |-> tree, dirty |-> dirty]

\* a startup run before MainState::new
NotBuilt == [done |-> FALSE, terrain |-> <<>>, boundary |-> Rect_new(0, 0, 0, 0),
             instances |-> <<>>]

\* the colours of the instances (lines 294, 297, 300): Color::from_rgb
GrassColor == <<111, 171, 51>>
RockColor == <<123, 108, 113>>
White == <<255, 255, 255>>

\* DrawParam::default().dest(..).color(..)
DrawParam(dest, color) == [dest |-> dest, color |-> color]

\* lines 292-302: the colour pushed for a cell of material mat
InstanceColor(mat) ==
    IF mat = "Grass" THEN GrassColor
    ELSE IF mat = "Rock" THEN RockColor
    ELSE White

\* an index that counts row by row
InstanceIndex_by_rows(x, y, w, h) == y * w + x

\* lines 353, 361: the index of the instance of cell (x, y) in a grid of w
\* columns and h rows
InstanceIndex(x, y, w, h) == x * h + y

\* damage_terrain_at, lines 347-361: the instance array after a damage of
\* cell, the cell (x, y) before the call: the instance of the cell is
\* replaced by a white one where the damage empties the cell
InstancesAfterDamage(instances, cell, x, y, amount, ignore_durability, g) ==
    IF cell.material # "Air" /\ (ignore_durability \/ cell.durability - amount <= 0)
    THEN [instances EXCEPT ![InstanceIndex(x, y, g.TERRAIN_WIDTH, g.TERRAIN_HEIGHT) + 1] =
             DrawParam(<<x * g.CELL_SIZE, y * g.CELL_SIZE>>, White)]
    ELSE instances

\* MainState::new under the globals g with the seeded generator gen: the grid
\* of lines 201-203 filled by generate_terrain (269-285), the boundary of the
\* index (307), and the instance array, cleared (251) and then one instance
\* pushed per cell in the order of the loops, at the cell's place and in the
\* colour of its material (287-302)
MainState_new(g, gen) ==
    LET w == g.TERRAIN_WIDTH
        h == g.TERRAIN_HEIGHT
        t == [x \in 0 .. w - 1 |->
                 [y \in 0 .. h - 1 |-> Classify(NoiseGenerator_get(gen, x, y))]]
    IN  [done |-> TRUE,
         terrain |-> t,
         boundary |-> Rect_new(0, 0, w * g.CELL_SIZE, h * g.CELL_SIZE),
         instances |-> [k \in 1 .. w * h |->
                           DrawParam(<<((k - 1) \div h) * g.CELL_SIZE,
                                       ((k - 1) % h) * g.CELL_SIZE>>,
                                     InstanceColor(t[(k - 1) \div h][(k - 1) % h].material))]]

(***************************************************************************)
(* Sounds.  A handler's part of the state is the record                    *)
(*   [terrain, quadtree_dirty, played, panicked, ret].                     *)
(* play_sound opens and decodes the file and creates a sink, each with     *)
(* expect(): it panics when the resource is not there.                     *)
(***************************************************************************)
play_sound(st, sound_path, ok) ==
    IF ok THEN [st EXCEPT !.played = Append(@, sound_path)]
    ELSE [st EXCEPT !.panicked = TRUE]

\* a damage that subtracts without the test for durability - amount <= 0
DamagedCell_no_floor(cell, amount, ignore_durability) ==
    IF cell.material = "Air" THEN cell
    ELSE IF ignore_durability THEN Cell("Air", 0)
    ELSE [cell EXCEPT !.durability = @ - amount]

\* a damage that does not look at ignore_durability
DamagedCell_no_ignore(cell, amount, ignore_durability) ==
    IF cell.material = "Air" THEN cell
    ELSE IF cell.durability - amount <= 0 THEN Cell("Air", 0)
    ELSE [cell EXCEPT !.durability = @ - amount]

\* lines 351-366: the cell after a damage
DamagedCell(cell, amount, ignore_durability) ==
    IF cell.material = "Air" THEN cell
    ELSE IF ignore_durability THEN Cell("Air", 0)
    ELSE IF cell.durability - amount <= 0 THEN Cell("Air", 0)
    ELSE [cell EXCEPT !.durability = @ - amount]

\* the flag set on every call that reaches the bounds test
DirtyAfter_always(dirty, cell) == TRUE

\* the flag never set by a damage
DirtyAfter_never(dirty, cell) == dirty

\* lines 367-368: the flag after a damage of cell
DirtyAfter(dirty, cell) == IF cell.material # "Air" THEN TRUE ELSE dirty

\* damage_terrain_at(x, y, amount, ignore_durability); roll is random_bool(0.10)
damage_terrain_at(st, x, y, amount, ignore_durability, roll, ok) ==
    IF ~ (x \in XS /\ y \in YS)
    THEN \* self.terrain[x][y] at line 329 is indexed before the bounds test
         [st EXCEPT !.panicked = TRUE]
    ELSE
      LET cell == st.terrain[x][y]
          should_play_sound == cell.durability - amount <= 0
          plays == /\ cell.material # "Air"
                   /\ (should_play_sound \/ ignore_durability)
                   /\ roll
          s1 == IF plays
                THEN play_sound(st,
                                IF cell.material = "Grass"
                                THEN "resources/sounds/grass.ogg"
                                ELSE "resources/sounds/stone.ogg",
                                ok)
                ELSE st
          after == DamagedCell(cell, amount, ignore_durability)
      IN  IF s1.panicked THEN s1
          ELSE [s1 EXCEPT !.terrain[x][y] = after,
                          !.quadtree_dirty = DirtyAfter(@, cell),
                          !.ret = after.material]


(***************************************************************************)
(* Effects (src/src/effect.rs) and their per-frame processing.             *)
(***************************************************************************)
Effect(effect_type, position, direction, started_at, spawned) ==
    [effect_type |-> effect_type, position |-> position, direction |-> direction,
     started_at |-> started_at, spawned |-> spawned]

Cos(d) == CASE d % TAU = 0 -> 1 [] d % TAU = 1 -> 0 [] d % TAU = 2 -> 0 - 1 [] d % TAU = 3 -> 0
Sin(d) == CASE d % TAU = 0 -> 0 [] d % TAU = 1 -> 1 [] d % TAU = 2 -> 0 [] d % TAU = 3 -> 0 - 1

BubbleSpeed == 50
LightningSpeed == 200

\* speed * dt, lines 413-420
StepLength(effect_type) ==
    (IF effect_type = "Lightning" THEN LightningSpeed ELSE BubbleSpeed) \div TickRate

\* lines 419-422
Advance(eff) ==
    [eff EXCEPT !.position =
        <<eff.position[1] + StepLength(eff.effect_type) * Cos(eff.direction),
          eff.position[2] + StepLength(eff.effect_type) * Sin(eff.direction)>>]

\* a test of the horizontal borders only
OutsideBorders_x(eff, width, height) ==
    eff.position[1] <= 0 \/ eff.position[1] >= width

\* lines 429-432
OutsideBorders(eff, width, height) ==
    \/ eff.position[1] <= 0
    \/ eff.position[1] >= width
    \/ eff.position[2] <= 0
    \/ eff.position[2] >= height

\* a bounce that reflects on one axis only, the horizontal one first
bounce_once(eff, terrain_width, terrain_height) ==
    IF eff.position[1] <= 0 \/ eff.position[1] >= terrain_width
    THEN [eff EXCEPT !.direction = (PI - @) % TAU]
    ELSE IF eff.position[2] <= 0 \/ eff.position[2] >= terrain_height
    THEN [eff EXCEPT !.direction = (0 - @) % TAU]
    ELSE eff

\* Effect::bounce
bounce(eff, terrain_width, terrain_height) ==
    LET d1 == IF eff.position[1] <= 0 \/ eff.position[1] >= terrain_width
              THEN PI - eff.direction ELSE eff.direction
        d2 == IF eff.position[2] <= 0 \/ eff.position[2] >= terrain_height
              THEN 0 - d1 ELSE d1
    IN  [eff EXCEPT !.direction = d2 % TAU]

BubbleDamage == 5
LightningDamage == 10

\* a beam whose requests do not ignore the durability
IgnoresDurability_never(effect_type) == FALSE

\* lines 457-462
DamageOf(effect_type) == IF effect_type = "Lightning" THEN LightningDamage ELSE BubbleDamage
IgnoresDurability(effect_type) == effect_type = "Lightning"

\* a query square whose side, not its half-width, is the cell size
QueryRect_half(eff) ==
    LET radius == read_cell_size \div 2
    IN  Rect_new(eff.position[1] - radius, eff.position[2] - radius, radius * 2, radius * 2)

\* lines 444-450
QueryRect(eff) ==
    LET radius == read_cell_size
    IN  Rect_new(eff.position[1] - radius, eff.position[2] - radius, radius * 2, radius * 2)

RECURSIVE ScanCandidates_no_break(_, _, _, _)
\* a scan that goes on after the first intact cell
ScanCandidates_no_break(eff, t, candidates, i) ==
    IF i > Len(candidates) THEN [requests |-> <<>>, deflected |-> FALSE]
    ELSE
      LET candidate == candidates[i]
          distance == Abs(eff.position[1] - candidate.x) + Abs(eff.position[2] - candidate.y)
          dmg == DamageOf(eff.effect_type)
          ignore_durability == IgnoresDurability(eff.effect_type)
          cell == t[candidate.tx][candidate.ty]
          request == <<candidate.tx, candidate.ty, dmg, ignore_durability>>
          remaining == IF ignore_durability THEN 0 ELSE cell.durability - dmg
          rest == ScanCandidates_no_break(eff, t, candidates, i + 1)
      IN  IF distance > read_cell_size \/ cell.material = "Air"
          THEN rest
          ELSE [requests |-> <<request>> \o rest.requests,
                deflected |-> remaining > 0 \/ rest.deflected]

RECURSIVE ScanCandidates(_, _, _, _)
\* lines 452-481: the requests pushed for candidates[i..] and whether the scan
\* ended on an intact cell
ScanCandidates(eff, t, candidates, i) ==
    IF i > Len(candidates) THEN [requests |-> <<>>, deflected |-> FALSE]
    ELSE
      LET candidate == candidates[i]
          distance == Abs(eff.position[1] - candidate.x) + Abs(eff.position[2] - candidate.y)
          dmg == DamageOf(eff.effect_type)
          ignore_durability == IgnoresDurability(eff.effect_type)
          cell == t[candidate.tx][candidate.ty]
          request == <<candidate.tx, candidate.ty, dmg, ignore_durability>>
          remaining == IF ignore_durability THEN 0 ELSE cell.durability - dmg
      IN  IF distance > read_cell_size \/ cell.material = "Air"
          THEN ScanCandidates(eff, t, candidates, i + 1)
          ELSE IF remaining > 0
          THEN [requests |-> <<request>>, deflected |-> TRUE]
          ELSE LET rest == ScanCandidates(eff, t, candidates, i + 1)
               IN  [requests |-> <<request>> \o rest.requests, deflected |-> rest.deflected]

BubbleCap == 10
Lifetime == 3

\* random_range(-PI..PI) in quarter turns
DeflectDraws == (0 - PI) .. (PI - 1)
\* random_range(0.0..TAU) in quarter turns
HeadingDraws == 0 .. (TAU - 1)
\* random_range(-0.3..0.3) and random_range(-0.5..0.5) in quarter turns
OffsetDraws == {0}

BoingSounds == <<"resources/sounds/boing/boing.ogg", "resources/sounds/boing/boing_casseur.ogg">>

\* now.duration_since(started_at): zero when started_at is later than now
DurationSince(t, started_at) == IF t >= started_at THEN t - started_at ELSE 0

\* retain with <= for <
Retained_inclusive(eff, t) == DurationSince(t, eff.started_at) <= Lifetime

\* the predicate of retain, line 548
Retained(eff, t) == DurationSince(t, eff.started_at) < Lifetime

RECURSIVE Retain(_, _)
Retain(effs, t) ==
    IF effs = <<>> THEN <<>>
    ELSE (IF Retained(Head(effs), t) THEN <<Head(effs)>> ELSE <<>>) \o Retain(Tail(effs), t)

RECURSIVE ApplyDamages_first_wins(_, _, _, _)
\* a merge where the first request for a cell claims it: the later requests
\* of the frame for that cell are dropped
ApplyDamages_first_wins(st, requests, rolls, ok) ==
    IF requests = <<>> \/ st.panicked THEN st
    ELSE LET first == Head(requests)
             Other(r) == r[1] # first[1] \/ r[2] # first[2]
         IN  ApplyDamages_first_wins(
                 damage_terrain_at(st, first[1], first[2], first[3], first[4],
                                   Head(rolls), ok),
                 SelectSeq(Tail(requests), Other), Tail(rolls), ok)

RECURSIVE ApplyDamages(_, _, _, _)
\* lines 543-545: the requests from the i-th on, in order; a panic ends the loop
ApplyDamages(st, requests, rolls, ok) ==
    IF requests = <<>> \/ st.panicked THEN st
    ELSE ApplyDamages(
             damage_terrain_at(st, Head(requests)[1], Head(requests)[2], Head(requests)[3],
                               Head(requests)[4], Head(rolls), ok),
             Tail(requests), Tail(rolls), ok)

RECURSIVE PlaySounds(_, _, _)
\* lines 551-553
PlaySounds(st, sounds, ok) ==
    IF sounds = <<>> \/ st.panicked THEN st
    ELSE PlaySounds(play_sound(st, Head(sounds), ok), Tail(sounds), ok)

(***************************************************************************)
(* Buttons (mouse_button_down_event, lines 776-825).                       *)
(***************************************************************************)
ButtonWidth == 100
ButtonHeight == 40
ButtonSpacing == 10
ButtonY == 10
ButtonLeft == 10

Buttons == <<"Reset", "Bubbles", "MoreBubbles", "Lightning">>

ButtonRect(i) ==
    Rect_new(ButtonLeft + (i - 1) * (ButtonWidth + ButtonSpacing), ButtonY,
             ButtonWidth, ButtonHeight)

\* the first button whose rectangle contains the click, 0 when there is none
ButtonAt(x, y) ==
    IF \E i \in 1 .. Len(Buttons) : contains_point(ButtonRect(i), x, y)
    THEN CHOOSE i \in 1 .. Len(Buttons) :
             /\ contains_point(ButtonRect(i), x, y)
             /\ \A j \in 1 .. (i - 1) : ~ contains_point(ButtonRect(j), x, y)
    ELSE 0


(***************************************************************************)
(* State.                                                                  *)
(***************************************************************************)
VARIABLES
    terrain,          \* MainState.terrain: terrain[x][y] is a Cell
    effects,          \* MainState.effects
    seed,             \* MainState.seed, the configured seed (-1: unset)
    noise_generator,  \* MainState.noise_generator
    selected_effect,  \* MainState.selected_effect
    terrain_quadtree, \* MainState.terrain_quadtree
    quadtree_dirty,   \* MainState.quadtree_dirty
    clock,            \* the reading of Instant::now()
    audio_ok,         \* the sound files and the audio device are there
    panicked,         \* a panic has unwound the main thread
    played,           \* sounds handed to a sink by the handler that ran last
    phase,            \* "idle" between handlers, "par" inside par_iter_mut
    now,              \* update_effects: now
    bubble_count,     \* update_effects: the AtomicUsize
    damage_requests,  \* update_effects: Mutex<Vec<(tx, ty, dmg, ignore)>>
    new_effects,      \* update_effects: Mutex<Vec<Effect>>
    sounds_to_play,   \* update_effects: Mutex<Vec<&str>>
    pc,               \* where the closure of each effect stands
    iter,             \* the MoreBubbles loop counter of each effect
    nborn,            \* per effect, the children it has pushed in this frame
    ret,              \* value returned by the last damage_terrain_at
    last_call,        \* arguments of the last direct damage_terrain_at call
    nspawn, nreset, ticks, ncalls,  \* counters that bound a run
    qt,               \* a QuadTree that takes any inserts and queries
    inserted,         \* the items qt's insert has accepted, in call order
    last_insert,      \* the last insert on qt: its item and what it returned
    last_query,       \* the last query on qt: its range and what it returned
    args,             \* the parsed command line (Args)
    globals,          \* the lazy_static globals of main.rs
    built,            \* a startup run: what MainState::new built under globals
    gens              \* two NoiseGenerator values that take any calls

vars == <<terrain, effects, seed, noise_generator, selected_effect, terrain_quadtree,
          quadtree_dirty, clock, audio_ok, panicked, played, phase, now, bubble_count,
          damage_requests, new_effects, sounds_to_play, pc, iter, nborn, ret,
          last_call, nspawn, nreset, ticks, ncalls, qt, inserted, last_insert,
          last_query, args, globals, built, gens>>

world == <<terrain, seed, noise_generator, terrain_quadtree, quadtree_dirty>>
locals == <<now, bubble_count, damage_requests, new_effects, sounds_to_play, pc, iter,
            nborn>>
counters == <<nspawn, nreset, ticks, ncalls>>
\* what the simulation never writes once it runs
harness == <<qt, inserted, last_insert, last_query, args, globals, built, gens>>

\* seeds given on the command line and seeds drawn by random_range(0..100_000)
ConfigSeeds == {0 - 1, 3}
RandSeeds == {0, 1}
ConfigNoise == {"Perlin"}

\* the two generators while nothing calls them
IdleGens == <<NoiseGenerator_new("Perlin", 0), NoiseGenerator_new("Perlin", 0)>>

NoCall == [x |-> 0, y |-> 0, amount |-> 0, ignore_durability |-> FALSE]

\* the boundary of qt: a square whose halves are whole down to side 1
TreeBoundary == Rect_new(0, 0, 16, 16)

NoInsert == [item |-> QuadTreeItem(0, 0, 0, 0), ok |-> FALSE, called |-> FALSE]
NoQuery == [range |-> Rect_new(0, 0, 0, 0), found |-> <<>>, called |-> FALSE]

\* in a run of the simulation the command line is CommandLine, main has run,
\* and qt is left alone
HarnessIdle ==
    /\ qt = QuadTree_new(TreeBoundary, 1)
    /\ inserted = <<>>
    /\ last_insert = NoInsert
    /\ last_query = NoQuery
    /\ args = CommandLine
    /\ globals = Globals
    /\ built = NotBuilt
    /\ gens = IdleGens

\* MainState::new: the fields, then generate_terrain.  The output stream was
\* opened (try_default().expect) and the sound files are installed.
Constructed ==
    /\ seed \in ConfigSeeds
    /\ \E noise_type \in ConfigNoise, drawn \in RandSeeds :
          noise_generator =
              NoiseGenerator_generate(NoiseGenerator_new(noise_type, AsU32(seed)),
                                      ActualSeed(seed, drawn))
    /\ terrain = GeneratedTerrain(noise_generator)
    /\ terrain_quadtree = GeneratedQuadTree
    /\ quadtree_dirty = FALSE
    /\ effects = <<>>
    /\ selected_effect = "Bubbles"
    /\ clock = 0
    /\ panicked = FALSE
    /\ played = <<>>
    /\ phase = "idle"
    /\ now = 0
    /\ bubble_count = 0
    /\ damage_requests = <<>>
    /\ new_effects = <<>>
    /\ sounds_to_play = <<>>
    /\ pc = <<>>
    /\ iter = <<>>
    /\ nborn = <<>>
    /\ ret = "Air"
    /\ last_call = NoCall
    /\ nspawn = 0
    /\ nreset = 0
    /\ ticks = 0
    /\ ncalls = 0

Init ==
    /\ audio_ok = TRUE
    /\ HarnessIdle
    /\ Constructed

\* time passes; one call of update_effects lasts less than a second, so the
\* clock moves on at most once while it runs: here right after now is taken
ClockAdvance ==
    /\ clock < MaxClock
    /\ ~ panicked
    /\ phase = "par" => (clock = now /\ \A i \in DOMAIN pc : pc[i] = "todo")
    /\ clock' = clock + 1
    /\ UNCHANGED <<world, effects, selected_effect, audio_ok, harness, panicked, played, phase,
                   locals, ret, last_call, counters>>

(***************************************************************************)
(* mouse_button_down_event with the left button.                           *)
(***************************************************************************)
BtnClick == "resources/sounds/btnclick.ogg"

\* a click on a button while the sound cannot be played: play_sound panics
ClickPanics(x, y) ==
    /\ phase = "idle" /\ ~ panicked
    /\ ButtonAt(x, y) # 0
    /\ ~ audio_ok
    /\ panicked' = TRUE
    /\ UNCHANGED <<world, effects, selected_effect, clock, audio_ok, harness, played, phase,
                   locals, ret, last_call, counters>>

\* a Reset that regenerates the grid and forgets effects.clear()
ClickReset_keeps_effects(x, y) ==
    /\ phase = "idle" /\ ~ panicked
    /\ ButtonAt(x, y) = 1
    /\ audio_ok
    /\ nreset < MaxReset
    /\ nreset' = nreset + 1
    /\ played' = <<BtnClick>>
    /\ \E drawn \in RandSeeds :
          noise_generator' = NoiseGenerator_generate(noise_generator, ActualSeed(seed, drawn))
    /\ terrain' = GeneratedTerrain(noise_generator')
    /\ terrain_quadtree' = GeneratedQuadTree
    /\ UNCHANGED <<seed, quadtree_dirty, effects, selected_effect, clock, audio_ok, harness,
                   panicked, phase, locals, ret, last_call, nspawn, ticks, ncalls>>

\* the Reset button: generate_terrain, then effects.clear()
ClickReset(x, y) ==
    /\ phase = "idle" /\ ~ panicked
    /\ ButtonAt(x, y) = 1
    /\ audio_ok
    /\ nreset < MaxReset
    /\ nreset' = nreset + 1
    /\ played' = <<BtnClick>>
    /\ \E drawn \in RandSeeds :
          noise_generator' = NoiseGenerator_generate(noise_generator, ActualSeed(seed, drawn))
    /\ terrain' = GeneratedTerrain(noise_generator')
    /\ terrain_quadtree' = GeneratedQuadTree
    /\ effects' = <<>>
    /\ UNCHANGED <<seed, quadtree_dirty, selected_effect, clock, audio_ok, harness, panicked, phase,
                   locals, ret, last_call, nspawn, ticks, ncalls>>

\* one of the three effect buttons; a run is followed as long as a spawn can
\* still use the selection
ClickSelect(x, y) ==
    /\ phase = "idle" /\ ~ panicked
    /\ ButtonAt(x, y) > 1
    /\ audio_ok
    /\ nspawn < MaxSpawn
    /\ played' = <<BtnClick>>
    /\ selected_effect' = Buttons[ButtonAt(x, y)]
    /\ UNCHANGED <<world, effects, clock, audio_ok, harness, panicked, phase, locals, ret,
                   last_call, counters>>

\* a spawn that takes the coordinates in the wrong order
spawn_effect_swapped(effs, x, y, kind, heading, t) ==
    Append(effs, Effect(kind, <<y, x>>, heading, t, FALSE))

\* spawn_effect
spawn_effect(effs, x, y, kind, heading, t) ==
    Append(effs, Effect(kind, <<x, y>>, heading, t, FALSE))

\* a click on the canvas below the buttons
ClickCanvas(x, y) ==
    /\ phase = "idle" /\ ~ panicked
    /\ ButtonAt(x, y) = 0
    /\ y > ButtonY + ButtonHeight
    /\ nspawn < MaxSpawn
    /\ nspawn' = nspawn + 1
    /\ \E heading \in HeadingDraws :
          effects' = spawn_effect(effects, x, y, selected_effect, heading, clock)
    /\ played' = <<>>
    /\ UNCHANGED <<world, selected_effect, clock, audio_ok, harness, panicked, phase, locals, ret,
                   last_call, nreset, ticks, ncalls>>

\* where the mouse is clicked: the four buttons and two places on the canvas
ClickPoints == {<<60, 30>>, <<170, 30>>, <<280, 30>>, <<390, 30>>, <<0, 150>>, <<250, 150>>}

Reset == \E p \in ClickPoints : ClickReset(p[1], p[2])
Select == \E p \in ClickPoints : ClickSelect(p[1], p[2])
Canvas == \E p \in ClickPoints : ClickCanvas(p[1], p[2])

MouseDown == Reset \/ Select \/ Canvas


(***************************************************************************)
(* update -> update_effects.  The closure of par_iter_mut runs once per    *)
(* effect on the workers of the rayon pool; its steps are the accesses to  *)
(* what the workers share: the three Mutex-guarded vectors and the atomic  *)
(* counter.  Everything a closure does up to its first access to the       *)
(* counter touches only its own effect and the two vectors that no closure *)
(* reads, so it is one step.                                               *)
(***************************************************************************)
Handler(t, d, p) == [terrain |-> t, quadtree_dirty |-> d, played |-> p,
                     panicked |-> FALSE, ret |-> ret]

\* update once the introduction screen is over: update_effects up to
\* par_iter_mut (lines 392-408)
TickStart ==
    /\ phase = "idle" /\ ~ panicked
    /\ ticks < MaxTicks
    /\ Len(effects) <= MaxActive
    /\ LET r == update_quadtree_if_needed(terrain_quadtree, quadtree_dirty, terrain)
       IN  /\ terrain_quadtree' = r.tree
           /\ quadtree_dirty' = r.dirty
    /\ now' = clock
    /\ bubble_count' = 0
    /\ damage_requests' = <<>>
    /\ new_effects' = <<>>
    /\ sounds_to_play' = <<>>
    /\ nborn' = [i \in 1 .. Len(effects) |-> 0]
    /\ pc' = [i \in 1 .. Len(effects) |-> "todo"]
    /\ iter' = [i \in 1 .. Len(effects) |-> 0]
    /\ played' = <<>>
    /\ phase' = "par"
    /\ UNCHANGED <<terrain, seed, noise_generator, effects, selected_effect, clock,
                   audio_ok, harness, panicked, ret, last_call, counters>>

\* closures that a worker has started and not finished
Running == {i \in DOMAIN pc : pc[i] \notin {"todo", "done"}}

\* a spawn block without the match on the kind
CanSpawn_any(eff) == ~ eff.spawned

\* lines 484-486, 512: the kinds that roll for children
CanSpawn(eff) == ~ eff.spawned /\ eff.effect_type \in {"Bubbles", "MoreBubbles"}

\* a closure that applies its damages itself instead of pushing requests
EffMove_direct(i) ==
    /\ phase = "par"
    /\ i \in DOMAIN pc /\ pc[i] = "todo"
    /\ Cardinality(Running) < Threads
    /\ LET moved == Advance(effects[i])
           turned == bounce(moved, read_screen_width, read_screen_height)
           scan == ScanCandidates(turned, terrain,
                                  QuadTree_query(terrain_quadtree, QueryRect(turned)), 1)
           st == ApplyDamages(Handler(terrain, quadtree_dirty, played), scan.requests,
                              [k \in 1 .. Len(scan.requests) |-> FALSE], audio_ok)
       IN  /\ terrain' = st.terrain
           /\ quadtree_dirty' = st.quadtree_dirty
           /\ effects' = [effects EXCEPT ![i] = turned]
    /\ pc' = [pc EXCEPT ![i] = "done"]
    /\ UNCHANGED <<seed, noise_generator, terrain_quadtree, selected_effect, clock, audio_ok,
                   harness, panicked, played, phase, now, bubble_count, damage_requests,
                   new_effects, sounds_to_play, iter, nborn, ret, last_call, counters>>

\* a closure that returns at once when elapsed has reached the lifetime
EffMove_skips_expired(i) ==
    /\ phase = "par"
    /\ i \in DOMAIN pc /\ pc[i] = "todo"
    /\ Cardinality(Running) < Threads
    /\ LET expired == DurationSince(now, effects[i].started_at) >= Lifetime
           moved == Advance(effects[i])
           bounced == ~ expired
                      /\ OutsideBorders(moved, read_screen_width, read_screen_height)
           turned == bounce(moved, read_screen_width, read_screen_height)
           scan == ScanCandidates(turned, terrain,
                                  QuadTree_query(terrain_quadtree, QueryRect(turned)), 1)
       IN  /\ \E index \in (IF bounced THEN 1 .. Len(BoingSounds) ELSE {1}) :
                 sounds_to_play' = IF bounced
                                   THEN Append(sounds_to_play, BoingSounds[index])
                                   ELSE sounds_to_play
           /\ damage_requests' = IF expired THEN damage_requests
                                 ELSE damage_requests \o scan.requests
           /\ \E draw \in (IF scan.deflected /\ ~ expired THEN DeflectDraws ELSE {0}) :
                 effects' = [effects EXCEPT ![i] =
                     IF expired THEN @
                     ELSE IF scan.deflected
                     THEN [turned EXCEPT !.direction = (@ + PI + draw) % TAU]
                     ELSE turned]
           /\ \E roll \in (IF CanSpawn(turned) /\ ~ expired THEN BOOLEAN ELSE {FALSE}) :
                 pc' = [pc EXCEPT ![i] = IF roll THEN "load" ELSE "done"]
    /\ UNCHANGED <<world, selected_effect, clock, audio_ok, harness, panicked, played, phase, now,
                   bubble_count, new_effects, iter, nborn, ret, last_call, counters>>

\* a closure whose scan reads the grid with the queued requests applied
EffMove_sees_queue(i) ==
    /\ phase = "par"
    /\ i \in DOMAIN pc /\ pc[i] = "todo"
    /\ Cardinality(Running) < Threads
    /\ LET moved == Advance(effects[i])
           bounced == OutsideBorders(moved, read_screen_width, read_screen_height)
           turned == bounce(moved, read_screen_width, read_screen_height)
           seen == ApplyDamages(Handler(terrain, quadtree_dirty, played), damage_requests,
                                [k \in 1 .. Len(damage_requests) |-> FALSE], audio_ok).terrain
           scan == ScanCandidates(turned, seen,
                                  QuadTree_query(terrain_quadtree, QueryRect(turned)), 1)
       IN  /\ \E index \in (IF bounced THEN 1 .. Len(BoingSounds) ELSE {1}) :
                 sounds_to_play' = IF bounced
                                   THEN Append(sounds_to_play, BoingSounds[index])
                                   ELSE sounds_to_play
           /\ damage_requests' = damage_requests \o scan.requests
           /\ \E draw \in (IF scan.deflected THEN DeflectDraws ELSE {0}) :
                 effects' = [effects EXCEPT ![i] =
                     IF scan.deflected
                     THEN [turned EXCEPT !.direction = (@ + PI + draw) % TAU]
                     ELSE turned]
           /\ \E roll \in (IF CanSpawn(turned) THEN BOOLEAN ELSE {FALSE}) :
                 pc' = [pc EXCEPT ![i] = IF roll THEN "load" ELSE "done"]
    /\ UNCHANGED <<world, selected_effect, clock, audio_ok, harness, panicked, played, phase, now,
                   bubble_count, new_effects, iter, nborn, ret, last_call, counters>>

\* lines 412-487 / 513: advance, bounce, boing, scan, deflection, spawn roll
EffMove(i) ==
    /\ phase = "par"
    /\ i \in DOMAIN pc /\ pc[i] = "todo"
    /\ Cardinality(Running) < Threads
    /\ LET moved == Advance(effects[i])
           bounced == OutsideBorders(moved, read_screen_width, read_screen_height)
           turned == bounce(moved, read_screen_width, read_screen_height)
           scan == ScanCandidates(turned, terrain,
                                  QuadTree_query(terrain_quadtree, QueryRect(turned)), 1)
       IN  /\ \E index \in (IF bounced THEN 1 .. Len(BoingSounds) ELSE {1}) :
                 sounds_to_play' = IF bounced
                                   THEN Append(sounds_to_play, BoingSounds[index])
                                   ELSE sounds_to_play
           /\ damage_requests' = damage_requests \o scan.requests
           /\ \E draw \in (IF scan.deflected THEN DeflectDraws ELSE {0}) :
                 effects' = [effects EXCEPT ![i] =
                     IF scan.deflected
                     THEN [turned EXCEPT !.direction = (@ + PI + draw) % TAU]
                     ELSE turned]
           /\ \E roll \in (IF CanSpawn(turned) THEN BOOLEAN ELSE {FALSE}) :
                 pc' = [pc EXCEPT ![i] = IF roll THEN "load" ELSE "done"]
    /\ UNCHANGED <<world, selected_effect, clock, audio_ok, harness, panicked, played, phase, now,
                   bubble_count, new_effects, iter, nborn, ret, last_call, counters>>

\* bubble_count.load(SeqCst) < 10 of lines 487 and 514
EffLoad(i) ==
    /\ phase = "par"
    /\ i \in DOMAIN pc /\ pc[i] = "load"
    /\ pc' = [pc EXCEPT ![i] =
                 IF bubble_count < BubbleCap
                 THEN (IF effects[i].effect_type = "Bubbles" THEN "push" ELSE "loop")
                 ELSE "done"]
    /\ UNCHANGED <<world, effects, selected_effect, clock, audio_ok, harness, panicked, played,
                   phase, now, bubble_count, damage_requests, new_effects, sounds_to_play,
                   iter, nborn, ret, last_call, counters>>

MoreBubblesRounds == 10

\* head of "for _ in 0..10" with the load of line 518; leaving the loop sets spawned
EffLoop(i) ==
    /\ phase = "par"
    /\ i \in DOMAIN pc /\ pc[i] = "loop"
    /\ IF iter[i] < MoreBubblesRounds /\ bubble_count < BubbleCap
       THEN /\ pc' = [pc EXCEPT ![i] = "push"]
            /\ UNCHANGED effects
       ELSE /\ pc' = [pc EXCEPT ![i] = "done"]
            /\ effects' = [effects EXCEPT ![i].spawned = TRUE]
    /\ UNCHANGED <<world, selected_effect, clock, audio_ok, harness, panicked, played, phase, now,
                   bubble_count, damage_requests, new_effects, sounds_to_play, iter,
                   nborn, ret, last_call, counters>>

\* a Bubbles branch that pushes one child
Children_single(eff, offset, t) ==
    <<Effect(eff.effect_type, eff.position, (eff.direction + offset) % TAU, t, TRUE)>>

\* children that may spawn in their turn
Children_unspawned(eff, offset, t) ==
    IF eff.effect_type = "Bubbles"
    THEN <<Effect("Bubbles", eff.position, (eff.direction + offset) % TAU, t, FALSE),
           Effect("Bubbles", eff.position, (eff.direction - offset) % TAU, t, FALSE)>>
    ELSE <<Effect("MoreBubbles", eff.position, (eff.direction + offset) % TAU, t, FALSE)>>

\* the children pushed under one lock of new_effects (lines 488-507, 521-528)
Children(eff, offset, t) ==
    IF eff.effect_type = "Bubbles"
    THEN <<Effect("Bubbles", eff.position, (eff.direction + offset) % TAU, t, TRUE),
           Effect("Bubbles", eff.position, (eff.direction - offset) % TAU, t, TRUE)>>
    ELSE <<Effect("MoreBubbles", eff.position, (eff.direction + offset) % TAU, t, TRUE)>>

\* what fetch_add adds (lines 508, 529)
Added(effect_type) == IF effect_type = "Bubbles" THEN 2 ELSE 1

\* the pushes under one lock of new_effects and the fetch_add that follows, then
\* spawned = true (Bubbles) or the next round (MoreBubbles).  No closure reads
\* new_effects, so the push and the fetch_add are one step: a load of another
\* closure that falls between them sees the count it would see before the push.
EffSpawn(i) ==
    /\ phase = "par"
    /\ i \in DOMAIN pc /\ pc[i] = "push"
    /\ \E offset \in OffsetDraws :
          LET born == Children(effects[i], offset, clock)
          IN  /\ new_effects' = new_effects \o born
              /\ nborn' = [nborn EXCEPT ![i] = @ + Len(born)]
    /\ bubble_count' = bubble_count + Added(effects[i].effect_type)
    /\ IF effects[i].effect_type = "Bubbles"
       THEN /\ effects' = [effects EXCEPT ![i].spawned = TRUE]
            /\ pc' = [pc EXCEPT ![i] = "done"]
            /\ UNCHANGED iter
       ELSE /\ iter' = [iter EXCEPT ![i] = @ + 1]
            /\ pc' = [pc EXCEPT ![i] = "loop"]
            /\ UNCHANGED effects
    /\ UNCHANGED <<world, selected_effect, clock, audio_ok, harness, panicked, played, phase, now,
                   damage_requests, sounds_to_play, ret, last_call, counters>>

\* update_effects after par_iter_mut (lines 539-555); rolls are the
\* random_bool(0.10) of the damage_terrain_at calls
Merge(effs, born, requests, sounds, st, t, rolls, ok) ==
    LET extended == effs \o born
        damaged == ApplyDamages(st, requests, rolls, ok)
        flushed == PlaySounds(damaged, sounds, ok)
    IN  IF damaged.panicked THEN [effects |-> extended, st |-> damaged]
        ELSE [effects |-> Retain(extended, t), st |-> flushed]

\* a merge that refreshes the index as soon as it has applied the damages
TickMerge_rebuilds ==
    /\ phase = "par"
    /\ \A i \in DOMAIN pc : pc[i] = "done"
    /\ \E rolls \in [1 .. Len(damage_requests) -> BOOLEAN] :
          LET m == Merge(effects, new_effects, damage_requests, sounds_to_play,
                         Handler(terrain, quadtree_dirty, played), now, rolls, audio_ok)
              r == update_quadtree_if_needed(terrain_quadtree, m.st.quadtree_dirty,
                                             m.st.terrain)
          IN  /\ effects' = m.effects
              /\ terrain' = m.st.terrain
              /\ terrain_quadtree' = r.tree
              /\ quadtree_dirty' = r.dirty
              /\ played' = m.st.played
              /\ panicked' = m.st.panicked
    /\ phase' = "idle"
    /\ ticks' = ticks + 1
    /\ bubble_count' = 0
    /\ damage_requests' = <<>>
    /\ new_effects' = <<>>
    /\ sounds_to_play' = <<>>
    /\ nborn' = <<>>
    /\ pc' = <<>>
    /\ iter' = <<>>
    /\ UNCHANGED <<seed, noise_generator, selected_effect, clock, audio_ok, harness, now,
                   ret, last_call, nspawn, nreset, ncalls>>

TickMerge ==
    /\ phase = "par"
    /\ \A i \in DOMAIN pc : pc[i] = "done"
    /\ \E rolls \in [1 .. Len(damage_requests) -> BOOLEAN] :
          LET m == Merge(effects, new_effects, damage_requests, sounds_to_play,
                         Handler(terrain, quadtree_dirty, played), now, rolls, audio_ok)
          IN  /\ effects' = m.effects
              /\ terrain' = m.st.terrain
              /\ quadtree_dirty' = m.st.quadtree_dirty
              /\ played' = m.st.played
              /\ panicked' = m.st.panicked
    /\ phase' = "idle"
    /\ ticks' = ticks + 1
    /\ bubble_count' = 0
    /\ damage_requests' = <<>>
    /\ new_effects' = <<>>
    /\ sounds_to_play' = <<>>
    /\ nborn' = <<>>
    /\ pc' = <<>>
    /\ iter' = <<>>
    /\ UNCHANGED <<seed, noise_generator, terrain_quadtree, selected_effect, clock,
                   audio_ok, harness, now, ret, last_call, nspawn, nreset, ncalls>>

Move == \E i \in DOMAIN pc : EffMove(i)
Load == \E i \in DOMAIN pc : EffLoad(i)
Loop == \E i \in DOMAIN pc : EffLoop(i)
Spawn == \E i \in DOMAIN pc : EffSpawn(i)

Next == ClockAdvance \/ MouseDown \/ TickStart \/ Move \/ Load \/ Loop \/ Spawn \/ TickMerge

Spec == Init /\ [][Next]_vars


(***************************************************************************)
(* damage_terrain_at called on its own, with any cell index up to one past *)
(* the grid on each axis.                                                  *)
(***************************************************************************)
DamageAmounts == {BubbleDamage, LightningDamage}

DamageCall ==
    /\ phase = "idle" /\ ~ panicked
    /\ ncalls < MaxCalls
    /\ ncalls' = ncalls + 1
    /\ \E x \in 0 .. read_terrain_width, y \in 0 .. read_terrain_height,
          amount \in DamageAmounts, ignore_durability \in BOOLEAN, roll \in BOOLEAN :
          LET st == damage_terrain_at(Handler(terrain, quadtree_dirty, <<>>), x, y, amount,
                                      ignore_durability, roll, audio_ok)
          IN  /\ last_call' = [x |-> x, y |-> y, amount |-> amount,
                               ignore_durability |-> ignore_durability]
              /\ terrain' = st.terrain
              /\ quadtree_dirty' = st.quadtree_dirty
              /\ played' = st.played
              /\ panicked' = st.panicked
              /\ ret' = st.ret
    /\ UNCHANGED <<seed, noise_generator, terrain_quadtree, effects, selected_effect, clock,
                   audio_ok, harness, phase, locals, nspawn, nreset, ticks>>

NextDamage == DamageCall

SpecDamage == Init /\ [][NextDamage]_vars

(***************************************************************************)
(* One frame with several effects alive: the state after ParParents clicks *)
(* on the same place of the canvas, each with some kind selected.          *)
(***************************************************************************)
ParParents == 2

ParEffects == {Effect(kind, <<0, 150>>, 0, 0, FALSE) : kind \in EffectTypes}

InitPar ==
    /\ seed = 0 - 1
    /\ audio_ok = TRUE
    /\ HarnessIdle
    /\ \E noise_type \in ConfigNoise, drawn \in RandSeeds :
          noise_generator =
              NoiseGenerator_generate(NoiseGenerator_new(noise_type, AsU32(seed)),
                                      ActualSeed(seed, drawn))
    /\ terrain = GeneratedTerrain(noise_generator)
    /\ terrain_quadtree = GeneratedQuadTree
    /\ quadtree_dirty = FALSE
    /\ effects \in [1 .. ParParents -> ParEffects]
    /\ selected_effect = effects[ParParents].effect_type
    /\ clock = 0
    /\ panicked = FALSE
    /\ played = <<>>
    /\ phase = "idle"
    /\ now = 0
    /\ bubble_count = 0
    /\ damage_requests = <<>>
    /\ new_effects = <<>>
    /\ sounds_to_play = <<>>
    /\ pc = <<>>
    /\ iter = <<>>
    /\ nborn = <<>>
    /\ ret = "Air"
    /\ last_call = NoCall
    /\ nspawn = ParParents
    /\ nreset = 0
    /\ ticks = MaxTicks - 1
    /\ ncalls = 0

NextPar == TickStart \/ Move \/ Load \/ Loop \/ Spawn \/ TickMerge

SpecPar == InitPar /\ [][NextPar]_vars


(***************************************************************************)
(* Frames over effects of every kind: the state after one or two clicks on  *)
(* the canvas, and the last frame of a run.  An effect is next to the two   *)
(* lower corners of the window or in the middle of a cell, with any         *)
(* heading; it is a parent (spawned = false) or a child that an earlier     *)
(* frame created (spawned = true, Bubbles and MoreBubbles only).            *)
(***************************************************************************)
FramePositions == {<<0, 299>>, <<499, 299>>, <<250, 150>>}

FrameKinds == {<<"Bubbles", FALSE>>, <<"Bubbles", TRUE>>, <<"MoreBubbles", FALSE>>,
               <<"MoreBubbles", TRUE>>, <<"Lightning", FALSE>>}

\* the effect of the first click
FrameFirst ==
    {Effect(k[1], p, heading, 0, k[2]) : k \in FrameKinds, p \in FramePositions,
                                         heading \in HeadingDraws}

\* the effect of the second click, when there is one: a beam, or a bubble
\* that an earlier frame created, heading down from the middle of a cell
FrameSecond == {Effect("Lightning", <<250, 150>>, 1, 0, FALSE),
                Effect("Bubbles", <<250, 150>>, 1, 0, TRUE)}

InitFrame ==
    /\ seed \in ConfigSeeds
    /\ audio_ok = TRUE
    /\ HarnessIdle
    /\ \E noise_type \in ConfigNoise, drawn \in RandSeeds :
          noise_generator =
              NoiseGenerator_generate(NoiseGenerator_new(noise_type, AsU32(seed)),
                                      ActualSeed(seed, drawn))
    /\ terrain = GeneratedTerrain(noise_generator)
    /\ terrain_quadtree = GeneratedQuadTree
    /\ quadtree_dirty = FALSE
    /\ \E a \in FrameFirst :
          \/ effects = <<a>>
          \/ \E b \in FrameSecond : effects = <<a, b>>
    /\ selected_effect = effects[Len(effects)].effect_type
    /\ clock = 0
    /\ panicked = FALSE
    /\ played = <<>>
    /\ phase = "idle"
    /\ now = 0
    /\ bubble_count = 0
    /\ damage_requests = <<>>
    /\ new_effects = <<>>
    /\ sounds_to_play = <<>>
    /\ pc = <<>>
    /\ iter = <<>>
    /\ nborn = <<>>
    /\ ret = "Air"
    /\ last_call = NoCall
    /\ nspawn = Len(effects)
    /\ nreset = 0
    /\ ticks = MaxTicks - 1
    /\ ncalls = 0

NextFrame == TickStart \/ Move \/ Load \/ Loop \/ Spawn \/ TickMerge

SpecFrame == InitFrame /\ [][NextFrame]_vars


(***************************************************************************)
(* The simulation where the sound files may be missing or undecodable, or   *)
(* no sink can be created: play_sound then fails in one of its expect()     *)
(* calls (lines 562, 565, 568).                                             *)
(***************************************************************************)
InitAudio ==
    /\ audio_ok \in BOOLEAN
    /\ HarnessIdle
    /\ Constructed

Panic == \E p \in ClickPoints : ClickPanics(p[1], p[2])

NextAudio ==
    ClockAdvance \/ Reset \/ Select \/ Canvas \/ Panic \/ TickStart \/ Move \/ Load \/ Loop
    \/ Spawn \/ TickMerge

SpecAudio == InitAudio /\ [][NextAudio]_vars


(***************************************************************************)
(* Startup on its own (src/src/main.rs): main with any command line.  The   *)
(* widths, heights and cell sizes are whole numbers.                        *)
(***************************************************************************)
\* the globals as lazy_static creates them (lines 98-103)
DefaultGlobals ==
    [SCREEN_WIDTH |-> 700, SCREEN_HEIGHT |-> 500, TICK_RATE |-> 15,
     TERRAIN_WIDTH |-> 140, TERRAIN_HEIGHT |-> 100, CELL_SIZE |-> 5]

\* values of --width, --height, --delta and --cellsize: below, at and above the
\* minimum, multiples of the cell size and not
ArgWidths == {0, MIN_WIDTH - 1, MIN_WIDTH, MIN_WIDTH + 3, 700}
ArgHeights == {0, MIN_HEIGHT, MIN_HEIGHT + 5}
ArgDeltas == {0, MIN_DELTA, 60}
ArgCellSizes == {1, MIN_SIZE_CELL, 7, 100, 600}

InitConfig ==
    /\ audio_ok = TRUE
    /\ Constructed
    /\ seed = 3
    /\ qt = QuadTree_new(TreeBoundary, 1)
    /\ inserted = <<>>
    /\ last_insert = NoInsert
    /\ last_query = NoQuery
    /\ args \in [width : ArgWidths, height : ArgHeights, delta : ArgDeltas,
                  cellsize : ArgCellSizes]
    /\ globals = DefaultGlobals
    /\ built = NotBuilt
    /\ gens = IdleGens

\* a startup that leaves the grid dimensions as lazy_static created them
Main_stale ==
    /\ globals' = [Startup(args) EXCEPT !.TERRAIN_WIDTH = DefaultGlobals.TERRAIN_WIDTH,
                                        !.TERRAIN_HEIGHT = DefaultGlobals.TERRAIN_HEIGHT]
    /\ UNCHANGED <<world, effects, selected_effect, clock, audio_ok, panicked, played, phase,
                   locals, ret, last_call, counters, qt, inserted, last_insert, last_query,
                   args, built, gens>>

\* main: the clamps and update_constants
Main ==
    /\ globals' = Startup(args)
    /\ UNCHANGED <<world, effects, selected_effect, clock, audio_ok, panicked, played, phase,
                   locals, ret, last_call, counters, qt, inserted, last_insert, last_query,
                   args, built, gens>>

\* MainState::new, called by main once update_constants has run
New ==
    /\ globals = Startup(args)
    /\ ~ built.done
    /\ built' = MainState_new(globals, noise_generator)
    /\ UNCHANGED <<world, effects, selected_effect, clock, audio_ok, panicked, played, phase,
                   locals, ret, last_call, counters, qt, inserted, last_insert, last_query,
                   args, globals, gens>>

NextConfig == Main \/ New

SpecConfig == InitConfig /\ [][NextConfig]_vars


(***************************************************************************)
(* The quadtree on its own (src/src/quadtree.rs): a tree of any capacity    *)
(* from 1 up takes inserts of points in, on and outside its boundary, on    *)
(* and off the split lines, and queries with zero-area and other ranges.    *)
(***************************************************************************)
\* accepted inserts in one run, and the largest node capacity
MaxInserts == 4
MaxCapacity == 2

\* the center and the far corner of the boundary, points on a split line of the
\* root and of a child, a point off every line, and a point outside
TreePoints == {<<8, 8>>, <<16, 16>>, <<12, 8>>, <<8, 4>>, <<3, 5>>, <<17, 8>>}

\* the zero-area range at a point
PointRange(p) == Rect_new(p[1], p[2], 0, 0)

TreeRanges ==
    {PointRange(p) : p \in TreePoints}
    \cup {TreeBoundary, Rect_new(0, 0, 8, 8), Rect_new(8, 0, 0, 16), Rect_new(10, 2, 4, 4)}

InitTree ==
    /\ audio_ok = TRUE
    /\ Constructed
    /\ seed = 3
    /\ \E capacity \in 1 .. MaxCapacity : qt = QuadTree_new(TreeBoundary, capacity)
    /\ inserted = <<>>
    /\ last_insert = NoInsert
    /\ last_query = NoQuery
    /\ args = CommandLine
    /\ globals = Globals
    /\ built = NotBuilt
    /\ gens = IdleGens

simulation == <<world, effects, selected_effect, clock, audio_ok, panicked, played, phase,
                locals, ret, last_call, counters, args, globals, built, gens>>

\* QuadTree::insert; the item carries the number of the accepted insert as tx
TreeInsert ==
    /\ Len(inserted) < MaxInserts
    /\ \E p \in TreePoints :
          LET item == QuadTreeItem(p[1], p[2], Len(inserted) + 1, 0)
              r == QuadTreeNode_insert(qt.root, item)
          IN  /\ qt' = QuadTree_insert(qt, item)
              /\ last_insert' = [item |-> item, ok |-> r.ok, called |-> TRUE]
              /\ inserted' = IF r.ok THEN Append(inserted, item) ELSE inserted
    /\ last_query' = NoQuery
    /\ UNCHANGED simulation

\* QuadTree::query(&self, range)
TreeQuery ==
    /\ \E range \in TreeRanges :
          last_query' = [range |-> range, found |-> QuadTree_query(qt, range),
                         called |-> TRUE]
    /\ UNCHANGED <<qt, inserted, last_insert, simulation>>

NextTree == TreeInsert \/ TreeQuery

SpecTree == InitTree /\ [][NextTree]_vars


(***************************************************************************)
(* The noise generator on its own (src/src/noisegenerator.rs): two          *)
(* generators, each created with any algorithm and seed, take generate and  *)
(* set_noise_type calls in any order.                                       *)
(***************************************************************************)
NoiseSeeds == {0, 1, 2}

InitNoise ==
    /\ audio_ok = TRUE
    /\ Constructed
    /\ seed = 3
    /\ qt = QuadTree_new(TreeBoundary, 1)
    /\ inserted = <<>>
    /\ last_insert = NoInsert
    /\ last_query = NoQuery
    /\ args = CommandLine
    /\ globals = Globals
    /\ built = NotBuilt
    /\ \E t1, t2 \in NoiseTypes, s1, s2 \in NoiseSeeds :
          gens = <<NoiseGenerator_new(t1, s1), NoiseGenerator_new(t2, s2)>>

\* NoiseGenerator::generate on one of the two
NoiseGenerate ==
    /\ \E k \in DOMAIN gens, s \in NoiseSeeds :
          gens' = [gens EXCEPT ![k] = NoiseGenerator_generate(@, s)]
    /\ UNCHANGED <<world, effects, selected_effect, clock, audio_ok, panicked, played, phase,
                   locals, ret, last_call, counters, qt, inserted, last_insert, last_query,
                   args, globals, built>>

\* NoiseGenerator::set_noise_type on one of the two
NoiseSetType ==
    /\ \E k \in DOMAIN gens, noise_type \in NoiseTypes :
          gens' = [gens EXCEPT ![k] = NoiseGenerator_set_noise_type(@, noise_type)]
    /\ UNCHANGED <<world, effects, selected_effect, clock, audio_ok, panicked, played, phase,
                   locals, ret, last_call, counters, qt, inserted, last_insert, last_query,
                   args, globals, built>>

NextNoise == NoiseGenerate \/ NoiseSetType

SpecNoise == InitNoise /\ [][NextNoise]_vars


(***************************************************************************)
(* Generation under any --seed (an i64): the sentinel, small seeds, and     *)
(* seeds beyond the width of the noise seed.  The run clicks the buttons    *)
(* and lets time pass.                                                      *)
(***************************************************************************)
SeedArgs == {0 - 1, 0 - 2, 3, U32 - 1, U32 + 3}

InitSeed ==
    /\ seed \in SeedArgs
    /\ audio_ok = TRUE
    /\ HarnessIdle
    /\ \E noise_type \in ConfigNoise, drawn \in RandSeeds :
          noise_generator =
              NoiseGenerator_generate(NoiseGenerator_new(noise_type, AsU32(seed)),
                                      ActualSeed(seed, drawn))
    /\ terrain = GeneratedTerrain(noise_generator)
    /\ terrain_quadtree = GeneratedQuadTree
    /\ quadtree_dirty = FALSE
    /\ effects = <<>>
    /\ selected_effect = "Bubbles"
    /\ clock = 0
    /\ panicked = FALSE
    /\ played = <<>>
    /\ phase = "idle"
    /\ now = 0
    /\ bubble_count = 0
    /\ damage_requests = <<>>
    /\ new_effects = <<>>
    /\ sounds_to_play = <<>>
    /\ pc = <<>>
    /\ iter = <<>>
    /\ nborn = <<>>
    /\ ret = "Air"
    /\ last_call = NoCall
    /\ nspawn = 0
    /\ nreset = 0
    /\ ticks = 0
    /\ ncalls = 0

NextSeed == ClockAdvance \/ Reset \/ Select

SpecSeed == InitSeed /\ [][NextSeed]_vars


(***************************************************************************)
(* The grid and its instance array: generate_terrain, as MainState::new    *)
(* and the reset button call it, and damage_terrain_at on any cell of the  *)
(* grid, as the merge of a frame calls it.  built holds the grid and the   *)
(* instances of the MainState.                                              *)
(***************************************************************************)
DrawSeeds == {0, 3}

InitDraw ==
    /\ audio_ok = TRUE
    /\ Constructed
    /\ qt = QuadTree_new(TreeBoundary, 1)
    /\ inserted = <<>>
    /\ last_insert = NoInsert
    /\ last_query = NoQuery
    /\ args = CommandLine
    /\ globals = Globals
    /\ built = MainState_new(globals, noise_generator)
    /\ gens = IdleGens

\* reset -> generate_terrain, with the seed that the generation hands to the
\* generator
DrawGenerate ==
    /\ \E actual_seed \in DrawSeeds :
          built' = MainState_new(globals, NoiseGenerator_generate(noise_generator, actual_seed))
    /\ UNCHANGED <<world, effects, selected_effect, clock, audio_ok, panicked, played, phase,
                   locals, ret, last_call, counters, qt, inserted, last_insert, last_query,
                   args, globals, gens>>

\* damage_terrain_at on a cell of the grid
DrawDamage ==
    /\ \E x \in XS, y \in YS, amount \in DamageAmounts, ignore_durability \in BOOLEAN :
          LET st == damage_terrain_at(Handler(built.terrain, FALSE, <<>>), x, y, amount,
                                      ignore_durability, FALSE, audio_ok)
          IN  built' = [built EXCEPT
                           !.terrain = st.terrain,
                           !.instances = InstancesAfterDamage(@, built.terrain[x][y], x, y,
                                                              amount, ignore_durability,
                                                              globals)]
    /\ UNCHANGED <<world, effects, selected_effect, clock, audio_ok, panicked, played, phase,
                   locals, ret, last_call, counters, qt, inserted, last_insert, last_query,
                   args, globals, gens>>

NextDraw == DrawGenerate \/ DrawDamage

SpecDraw == InitDraw /\ [][NextDraw]_vars


(***************************************************************************)
(* The life of one spawn: after one click on the canvas no further click   *)
(* comes, time advances and the event loop keeps calling update, so that   *)
(* at least one frame takes its time (now) in every second.  Here ticks     *)
(* counts the frames that have ended in the current second.                 *)
(***************************************************************************)
\* the seconds a run is followed
MaxLife == 8

\* the one effect of the click: bubbles, which spawn two children, or a beam
LifeEffects == {Effect(kind, <<250, 150>>, 0, 0, FALSE) : kind \in {"Bubbles", "Lightning"}}

InitLife ==
    /\ seed = 3
    /\ audio_ok = TRUE
    /\ HarnessIdle
    /\ \E noise_type \in ConfigNoise, drawn \in RandSeeds :
          noise_generator =
              NoiseGenerator_generate(NoiseGenerator_new(noise_type, AsU32(seed)),
                                      ActualSeed(seed, drawn))
    /\ terrain = GeneratedTerrain(noise_generator)
    /\ terrain_quadtree = GeneratedQuadTree
    /\ quadtree_dirty = FALSE
    /\ \E a \in LifeEffects : effects = <<a>>
    /\ selected_effect = effects[1].effect_type
    /\ clock = 0
    /\ panicked = FALSE
    /\ played = <<>>
    /\ phase = "idle"
    /\ now = 0
    /\ bubble_count = 0
    /\ damage_requests = <<>>
    /\ new_effects = <<>>
    /\ sounds_to_play = <<>>
    /\ pc = <<>>
    /\ iter = <<>>
    /\ nborn = <<>>
    /\ ret = "Air"
    /\ last_call = NoCall
    /\ nspawn = 1
    /\ nreset = 0
    /\ ticks = 0
    /\ ncalls = 0

\* a second passes, between two frames or right after a frame has taken its
\* time, once a frame has taken its time in the second that ends
LifeSecond ==
    /\ clock < MaxLife
    /\ ~ panicked
    /\ now = clock
    /\ \/ phase = "idle" /\ ticks >= 1
       \/ phase = "par" /\ \A i \in DOMAIN pc : pc[i] = "todo"
    /\ clock' = clock + 1
    /\ ticks' = 0
    /\ UNCHANGED <<world, effects, selected_effect, audio_ok, harness, panicked, played, phase,
                   locals, ret, last_call, nspawn, nreset, ncalls>>

\* update -> update_effects up to par_iter_mut (lines 392-408), with any
\* number of effects alive
LifeTickStart ==
    /\ phase = "idle" /\ ~ panicked
    /\ ticks < MaxTicks
    /\ LET r == update_quadtree_if_needed(terrain_quadtree, quadtree_dirty, terrain)
       IN  /\ terrain_quadtree' = r.tree
           /\ quadtree_dirty' = r.dirty
    /\ now' = clock
    /\ bubble_count' = 0
    /\ damage_requests' = <<>>
    /\ new_effects' = <<>>
    /\ sounds_to_play' = <<>>
    /\ nborn' = [i \in 1 .. Len(effects) |-> 0]
    /\ pc' = [i \in 1 .. Len(effects) |-> "todo"]
    /\ iter' = [i \in 1 .. Len(effects) |-> 0]
    /\ played' = <<>>
    /\ phase' = "par"
    /\ UNCHANGED <<terrain, seed, noise_generator, effects, selected_effect, clock,
                   audio_ok, harness, panicked, ret, last_call, counters>>

\* the steps of a frame over bubbles and beams (the loop of a cluster has no
\* step here)
LifeFrame == LifeTickStart \/ Move \/ Load \/ Spawn \/ TickMerge

NextLife == LifeSecond \/ LifeFrame

\* the event loop calls update: a frame begins (the step of LifeTickStart,
\* told by what it does to phase)
UpdateCalled == phase = "idle" /\ ~ panicked /\ ticks < MaxTicks /\ phase' = "par"

\* the event loop goes on calling update, the workers of the pool run every
\* closure to its end, update_effects returns, and time does not stop
SpecLife ==
    /\ InitLife
    /\ [][NextLife]_vars
    /\ WF_phase(UpdateCalled)
    /\ WF_vars(Move)
    /\ WF_vars(Load \/ Spawn)
    /\ WF_vars(TickMerge)
    /\ WF_vars(LifeSecond)


(***************************************************************************)
(* Properties.                                                             *)
(***************************************************************************)
InGrid(x, y) == x \in XS /\ y \in YS

\* a direct damage_terrain_at call has just been made
Called == ncalls' = ncalls + 1

NonAirCells(t) == {c \in XS \X YS : t[c[1]][c[2]].material # "Air"}

\* the full-arena query on tree returns one point per non-Air cell of t, at the
\* cell's center and with its indices, and nothing else
ExactIndex(tree, t) ==
    LET found == QuadTree_query(tree, TerrainBoundary)
    IN  /\ Len(found) = Cardinality(NonAirCells(t))
        /\ \A c \in NonAirCells(t) :
              \E k \in 1 .. Len(found) :
                  found[k] = QuadTreeItem(Center(c[1]), Center(c[2]), c[1], c[2])

\* C1: in every state each cell is Air exactly when its durability is 0, and a
\* cell that is not Air has a durability above 0.
C1_CellInvariant ==
    \A x \in XS, y \in YS :
        /\ (terrain[x][y].material = "Air") <=> (terrain[x][y].durability = 0)
        /\ terrain[x][y].material # "Air" => terrain[x][y].durability > 0

\* a frame has damaged a rock without emptying it
C1_Witness ==
    /\ ticks >= 1
    /\ \E x \in XS, y \in YS :
          /\ terrain[x][y].material = "Rock"
          /\ terrain[x][y].durability = RockDurability - BubbleDamage

\* C2: a call on a cell of the grid that is not Air empties the cell (Air, 0)
\* when ignore_durability is set or durability - amount <= 0, and otherwise
\* lowers its durability by amount and keeps its material; every other cell
\* stays as it was.
C2_DamageEffect ==
    [][(Called /\ InGrid(last_call'.x, last_call'.y)
          /\ terrain[last_call'.x][last_call'.y].material # "Air")
       => LET c == last_call'
              old == terrain[c.x][c.y]
              new == terrain'[c.x][c.y]
          IN  /\ (c.ignore_durability \/ old.durability - c.amount <= 0)
                    => new = Cell("Air", 0)
              /\ ~ (c.ignore_durability \/ old.durability - c.amount <= 0)
                    => /\ new.material = old.material
                       /\ new.durability = old.durability - c.amount
              /\ \A x \in XS, y \in YS :
                    <<x, y>> # <<c.x, c.y>> => terrain'[x][y] = terrain[x][y]]_vars

\* calls have lowered one rock without emptying it and emptied another cell
C2_Witness ==
    /\ ncalls >= 2
    /\ ~ panicked
    /\ \E x \in XS, y \in YS :
          terrain[x][y] = Cell("Rock", RockDurability - BubbleDamage)
    /\ \E x \in XS, y \in YS :
          /\ GeneratedTerrain(noise_generator)[x][y].material # "Air"
          /\ terrain[x][y] = Cell("Air", 0)

\* C3: a call on a cell of the grid that is already Air changes nothing: the
\* cell, the rest of the grid and the dirty flag stay as they were, whatever
\* the amount and ignore_durability, and so for any number of calls.
C3_AirIdempotent ==
    [][(Called /\ InGrid(last_call'.x, last_call'.y)
          /\ terrain[last_call'.x][last_call'.y].material = "Air")
       => /\ terrain' = terrain
          /\ quadtree_dirty' = quadtree_dirty
          /\ ret' = "Air"
          /\ ~ panicked']_vars

\* several calls, the last one on an Air cell, and the flag was never set
C3_Witness ==
    /\ ncalls >= 2
    /\ InGrid(last_call.x, last_call.y)
    /\ terrain[last_call.x][last_call.y].material = "Air"
    /\ terrain = GeneratedTerrain(noise_generator)
    /\ ~ quadtree_dirty
    /\ ~ panicked

\* C4: a call with x >= grid width or y >= grid height ends normally, returns
\* Air and leaves the grid, the dirty flag and the effects as they were.
C4_OutOfBoundsNoOp ==
    [][(Called /\ ~ InGrid(last_call'.x, last_call'.y))
       => /\ ~ panicked'
          /\ ret' = "Air"
          /\ terrain' = terrain
          /\ quadtree_dirty' = quadtree_dirty
          /\ effects' = effects]_vars

\* C5 as stated: a damage that only lowers the durability of a cell that stays
\* non-Air leaves the dirty flag as it was.
C5_DirtyOnlyWhenEmptied ==
    [][(Called /\ InGrid(last_call'.x, last_call'.y)
          /\ terrain'[last_call'.x][last_call'.y].material # "Air")
       => quadtree_dirty' = quadtree_dirty]_vars

\* C5 (amended): a damage operation sets the dirty flag exactly when the cell it
\* is applied to is in the grid and not Air before the call, whether the cell
\* is emptied or only loses durability; a damage of an Air cell leaves the flag
\* as it was.
C5_DirtyWhenModified ==
    [][(Called /\ InGrid(last_call'.x, last_call'.y))
       => quadtree_dirty' =
             (quadtree_dirty \/ terrain[last_call'.x][last_call'.y].material # "Air")]_vars

\* the first call lowered a rock without emptying it and the flag is set
C5_Witness ==
    /\ ncalls = 1
    /\ InGrid(last_call.x, last_call.y)
    /\ terrain[last_call.x][last_call.y] = Cell("Rock", RockDurability - BubbleDamage)
    /\ quadtree_dirty

\* C6: when a frame starts with the dirty flag set, then after the refresh the
\* query over the whole arena returns exactly one point per non-Air cell, at
\* its center and with its (tx, ty), none for an Air cell and none twice, and
\* the flag is clear.
C6_RebuildExact ==
    [][(phase = "idle" /\ phase' = "par" /\ quadtree_dirty)
       => /\ ExactIndex(terrain_quadtree', terrain')
          /\ ~ quadtree_dirty']_vars

\* a frame runs on an index rebuilt after damage: it holds fewer points than
\* the grid has cells, and the root is subdivided
C6_Witness ==
    /\ phase = "par"
    /\ ticks >= 1
    /\ ~ quadtree_dirty
    /\ terrain # GeneratedTerrain(noise_generator)
    /\ terrain_quadtree.root.divided
    /\ Len(QuadTree_query(terrain_quadtree, TerrainBoundary)) < NumCells
    /\ ExactIndex(terrain_quadtree, terrain)

\* C7: right after generate_terrain (at construction and after Reset) the index
\* holds one point per non-Air cell of the new grid and none for an Air cell.
C7_GeneratedIndexExact ==
    /\ ExactIndex(terrain_quadtree, terrain)
    /\ [][nreset' # nreset => ExactIndex(terrain_quadtree', terrain')]_vars

\* C8: the children created in one frame never number more than the cap of 10.
C8_SharedCap == Len(new_effects) <= BubbleCap

\* C9: in one frame a Bubbles effect creates no child or exactly two, and the
\* two are appended to new_effects by one step, next to each other.
C9_BubblesPair ==
    [][\A i \in DOMAIN pc :
          (i \in DOMAIN nborn' /\ effects[i].effect_type = "Bubbles"
             /\ nborn'[i] # nborn[i])
          => /\ nborn[i] = 0
             /\ nborn'[i] = 2
             /\ Len(new_effects') = Len(new_effects) + 2
             /\ SubSeq(new_effects', 1, Len(new_effects)) = new_effects
             /\ \A k \in {Len(new_effects) + 1, Len(new_effects) + 2} :
                   /\ new_effects'[k].effect_type = "Bubbles"
                   /\ new_effects'[k].position = effects[i].position]_vars

\* a Bubbles effect has pushed its pair while another effect's children are in
\* new_effects as well
C9_Witness ==
    /\ phase = "par"
    /\ \E i \in DOMAIN nborn :
          /\ effects[i].effect_type = "Bubbles"
          /\ nborn[i] = 2
          /\ \E j \in DOMAIN nborn : j # i /\ nborn[j] > 0

\* C10: the frame's retain removes an effect exactly when its age at the time
\* taken at the start of the frame is at least the lifetime; the younger ones,
\* and every child created in the frame, remain, in order.
C10_Expiry ==
    [][(phase = "par" /\ phase' = "idle" /\ ~ panicked')
       => effects' = SelectSeq(effects, LAMBDA e : now - e.started_at < Lifetime)
                     \o new_effects]_vars

\* a frame removed the one effect that was spawned, and no Reset did it
C10_Witness ==
    /\ phase = "idle"
    /\ ticks >= 1
    /\ nspawn = 1
    /\ nreset = 0
    /\ now >= Lifetime
    /\ effects = <<>>

\* C11: between the start of par_iter_mut and the merge no step changes the
\* terrain grid, the index or the dirty flag; the grid changes only in steps
\* taken outside the parallel phase or in the merge that ends it.
C11_ParallelReadOnly ==
    [][phase = "par" /\ phase' = "par"
       => /\ terrain' = terrain
          /\ terrain_quadtree' = terrain_quadtree
          /\ quadtree_dirty' = quadtree_dirty]_vars

\* in the parallel phase a closure has finished and left a damage request for a
\* cell that is still intact
C11_Witness ==
    /\ phase = "par"
    /\ \E i \in DOMAIN pc : pc[i] = "done"
    /\ \E k \in 1 .. Len(damage_requests) :
          terrain[damage_requests[k][1]][damage_requests[k][2]].material # "Air"

\* C12: the index changes only in the step that starts a frame (or in a Reset);
\* the merge that ends a frame leaves it as it was, however many cells it
\* damaged, and the next frame's start, finding the flag set, replaces it by the
\* one rebuild of the grid as it is then and clears the flag.
C12_RebuildOnlyAtTickStart ==
    [][/\ terrain_quadtree' # terrain_quadtree
             => phase = "idle" /\ (phase' = "par" \/ nreset' # nreset)
       /\ phase = "par" => terrain_quadtree' = terrain_quadtree
       /\ (phase = "idle" /\ phase' = "par" /\ quadtree_dirty)
             => /\ terrain_quadtree' =
                      InsertNonAirCells(QuadTree_new(TerrainBoundary, RebuildCapacity),
                                        terrain, 0)
                /\ ~ quadtree_dirty']_vars

\* between two frames: the merge emptied two or more cells, the flag is set and
\* the index still returns a point for every cell
C12_Witness ==
    /\ phase = "idle"
    /\ ticks >= 1
    /\ nreset = 0
    /\ quadtree_dirty
    /\ Cardinality({c \in XS \X YS :
                       /\ terrain[c[1]][c[2]].material = "Air"
                       /\ GeneratedTerrain(noise_generator)[c[1]][c[2]].material # "Air"}) >= 2
    /\ Len(QuadTree_query(terrain_quadtree, TerrainBoundary)) = NumCells

\* how often e occurs in the sequence
Count(items, e) == Cardinality({k \in DOMAIN items : items[k] = e})

\* two sequences hold the same elements the same number of times
SameBag(a, b) ==
    /\ Len(a) = Len(b)
    /\ \A k \in DOMAIN a : Count(a, a[k]) = Count(b, a[k])

\* the point lies in the rectangle, edges included
Within(rect, x, y) ==
    x >= rect.x /\ x <= rect.x + rect.w /\ y >= rect.y /\ y <= rect.y + rect.h

\* C13: whatever the tree holds and whatever its capacity, insert accepts a
\* point exactly when it lies in the root boundary, edges included; an accepted
\* point is returned by the zero-area query at its coordinate, right after the
\* insert and after every later insert; no query returns a point outside the
\* root boundary.
C13_InsertThenPointQuery ==
    /\ last_insert.called
          => (last_insert.ok <=> Within(TreeBoundary, last_insert.item.x, last_insert.item.y))
    /\ (last_insert.called /\ Within(TreeBoundary, last_insert.item.x, last_insert.item.y))
          => Count(QuadTree_query(qt, PointRange(<<last_insert.item.x, last_insert.item.y>>)),
                   last_insert.item) = 1
    /\ \A k \in DOMAIN inserted :
          Count(QuadTree_query(qt, PointRange(<<inserted[k].x, inserted[k].y>>)),
                inserted[k]) = 1
    /\ \A range \in TreeRanges :
          LET found == QuadTree_query(qt, range)
          IN  \A k \in DOMAIN found : Within(TreeBoundary, found[k].x, found[k].y)

\* the far corner of the boundary was inserted into a full tree: the root is
\* subdivided and the point query finds the corner
C13_Witness ==
    /\ last_insert.called /\ last_insert.ok
    /\ last_insert.item.x = TreeBoundary.x + TreeBoundary.w
    /\ last_insert.item.y = TreeBoundary.y + TreeBoundary.h
    /\ qt.root.divided
    /\ last_insert.item \notin {qt.root.items[k] : k \in DOMAIN qt.root.items}
    /\ last_query.called
    /\ last_query.range = PointRange(<<last_insert.item.x, last_insert.item.y>>)
    /\ Count(last_query.found, last_insert.item) = 1

RECURSIVE StoredItems(_)
\* the items of every node of the subtree, each node's own list first
StoredItems(node) ==
    node.items
    \o (IF node.divided
        THEN StoredItems(node.northeast[1]) \o StoredItems(node.northwest[1])
             \o StoredItems(node.southeast[1]) \o StoredItems(node.southwest[1])
        ELSE <<>>)

\* the quadrants of a subdivided node in the order insert tries them
Quadrants(node) == <<node.northeast[1], node.northwest[1], node.southeast[1],
                     node.southwest[1]>>

\* the first quadrant, in that order, whose boundary holds the point
FirstQuadrant(node, item) ==
    LET q == Quadrants(node)
    IN  q[CHOOSE i \in 1 .. 4 :
              /\ Within(q[i].boundary, item.x, item.y)
              /\ \A j \in 1 .. (i - 1) : ~ Within(q[j].boundary, item.x, item.y)]

RECURSIVE InFirst(_, _)
\* the item is in the node's own list or, below it, on the path of first quadrants
InFirst(node, item) ==
    \/ Count(node.items, item) = 1
    \/ /\ node.divided
       /\ \E i \in 1 .. 4 : Within(Quadrants(node)[i].boundary, item.x, item.y)
       /\ InFirst(FirstQuadrant(node, item), item)

\* quadrants of the node whose boundary holds the point
Accepting(node, item) ==
    {i \in 1 .. 4 : Within(Quadrants(node)[i].boundary, item.x, item.y)}

\* C14: every accepted item is stored in exactly one node of the tree, the one
\* reached through the first quadrant that holds it in the order NE, NW, SE,
\* SW, also when it lies on a split line and several quadrants hold it; no
\* query returns an item twice.
C14_StoredOnce ==
    /\ SameBag(StoredItems(qt.root), inserted)
    /\ \A k \in DOMAIN inserted :
          /\ Count(StoredItems(qt.root), inserted[k]) = 1
          /\ InFirst(qt.root, inserted[k])
    /\ \A range \in TreeRanges :
          LET found == QuadTree_query(qt, range)
          IN  \A k \in DOMAIN found : Count(found, found[k]) = 1

\* the center of the boundary, which all four quadrants of the root hold, was
\* inserted into a full root and is stored in the north-east quadrant alone
C14_Witness ==
    /\ last_insert.called /\ last_insert.ok
    /\ qt.root.divided
    /\ Accepting(qt.root, last_insert.item) = 1 .. 4
    /\ Count(qt.root.items, last_insert.item) = 0
    /\ Count(StoredItems(qt.root.northeast[1]), last_insert.item) = 1
    /\ Count(StoredItems(qt.root), last_insert.item) = 1

\* C15: a query returns exactly the accepted items whose point lies in the
\* range, edges included, each as often as it was inserted: what filtering the
\* list of accepted items by the range gives.  The query leaves the tree as it
\* was.
C15_QueryIsFilter ==
    [][(last_query'.called /\ last_query' # last_query)
       => /\ SameBag(last_query'.found,
                     SelectSeq(inserted,
                               LAMBDA e : Within(last_query'.range, e.x, e.y)))
          /\ qt' = qt
          /\ inserted' = inserted]_vars

\* a query on a subdivided tree with a range that touches the boundary of a
\* quadrant only at the far corner returned some of the stored items, one of
\* them from a quadrant, and left others out
C15_Witness ==
    /\ last_query.called
    /\ qt.root.divided
    /\ last_query.range = PointRange(<<16, 16>>)
    /\ Len(last_query.found) >= 1
    /\ Len(last_query.found) < Len(inserted)
    /\ \E k \in DOMAIN last_query.found : Count(qt.root.items, last_query.found[k]) = 0

\* the grid that the noise of one algorithm and one seed gives
FreshGrid(noise_type, s) ==
    [x \in XS |-> [y \in YS |-> Classify(NoiseFn(noise_type, s % U32, x, y))]]

\* C16: with an explicit seed (not -1) the grid that generate_terrain leaves,
\* at construction and after every Reset, is the one grid that the seed and
\* the noise algorithm determine: the same cell by cell in material and
\* durability in every run, whatever was drawn at random and whatever the grid
\* and the effects were before.
C16_Reproducible ==
    /\ seed # 0 - 1 => terrain = FreshGrid(noise_generator.current_type, seed)
    /\ [][(nreset' # nreset /\ seed # 0 - 1)
          => /\ terrain' = FreshGrid(noise_generator'.current_type, seed')
             /\ terrain' = GeneratedTerrain(noise_generator)]_vars

\* with an explicit seed, a frame damaged the grid and a Reset then gave the
\* grid of the seed again (the flag set by the damage is still set)
C16_Witness ==
    /\ seed # 0 - 1
    /\ nreset = 1
    /\ ticks >= 1
    /\ quadtree_dirty
    /\ terrain = FreshGrid(noise_generator.current_type, seed)

\* C17: the step of a click on Reset leaves every cell of the grid as the newly
\* seeded generator classifies it, leaves no effect of any kind or age in the
\* collection, and leaves the selected kind as it was.
C17_ResetClears ==
    [][nreset' # nreset
       => /\ \A x \in XS, y \in YS :
                terrain'[x][y] = Classify(NoiseGenerator_get(noise_generator', x, y))
          /\ effects' = <<>>
          /\ selected_effect' = selected_effect]_vars

\* an effect of a kind selected by a button was spawned and, too young to
\* expire, damaged the grid in a frame; after the Reset the grid is whole, no
\* effect is left and the kind is still selected
C17_Witness ==
    /\ nreset = 1
    /\ nspawn = 1
    /\ ticks >= 1
    /\ clock < Lifetime
    /\ quadtree_dirty
    /\ selected_effect # "Bubbles"
    /\ effects = <<>>
    /\ terrain = GeneratedTerrain(noise_generator)

\* the places of ClickPoints that lie on the canvas, below the buttons
CanvasPoints == {p \in ClickPoints : ButtonAt(p[1], p[2]) = 0 /\ p[2] > ButtonY + ButtonHeight}

\* C18: the step of a click on the canvas appends exactly one effect: of the
\* selected kind, at the place of the click, not yet spawned, started at the
\* current time (age 0) and with a heading in [0, TAU); the effects that were
\* there, the grid, the index, the flag and the selection stay as they were.
\* The step of a click on an effect button changes the selected kind and none
\* of the grid, the index, the flag, the effects, the seed and the generator.
C18_SpawnAndSelect ==
    [][/\ nspawn' # nspawn
             => /\ Len(effects') = Len(effects) + 1
                /\ SubSeq(effects', 1, Len(effects)) = effects
                /\ effects'[Len(effects')].effect_type = selected_effect
                /\ effects'[Len(effects')].position \in CanvasPoints
                /\ effects'[Len(effects')].spawned = FALSE
                /\ effects'[Len(effects')].started_at = clock
                /\ effects'[Len(effects')].direction \in 0 .. (TAU - 1)
                /\ UNCHANGED <<terrain, terrain_quadtree, quadtree_dirty, selected_effect>>
       /\ selected_effect' # selected_effect
             => UNCHANGED <<terrain, terrain_quadtree, quadtree_dirty, effects, seed,
                            noise_generator, clock>>]_vars

\* after a first frame and later than the start, Lightning was selected by its
\* button and spawned by a click on the canvas
C18_Witness ==
    /\ nspawn = 1
    /\ nreset = 0
    /\ ticks >= 1
    /\ phase = "idle"
    /\ selected_effect = "Lightning"
    /\ clock >= 1
    /\ effects = <<Effect("Lightning", effects[1].position, effects[1].direction, clock,
                          FALSE)>>

\* C19: whether or not the sound files can be opened and decoded and a sink can
\* be created, no handler ends in a panic: the simulation never reaches a
\* fatal-error state.
C19_NoFatalError == ~ panicked

\* C20: whatever the command line, the globals that main leaves have a screen
\* width of at least 500, a screen height of at least 300, a tick rate of at
\* least 15 and a cell size of at least 5.
C20_AboveMinimums ==
    [][globals' # globals
       => /\ globals'.SCREEN_WIDTH >= MIN_WIDTH
          /\ globals'.SCREEN_HEIGHT >= MIN_HEIGHT
          /\ globals'.TICK_RATE >= MIN_DELTA
          /\ globals'.CELL_SIZE >= MIN_SIZE_CELL]_vars

(***************************************************************************)
(* C21: after update_constants the stored grid dimensions are the whole    *)
(* quotients of the stored screen width and height by the stored cell      *)
(* size, and what MainState::new builds afterwards has those dimensions:   *)
(* the terrain array has that many columns and rows, the boundary of the   *)
(* index spans that many cells on each axis, and the instance array holds  *)
(* one entry per cell.                                                     *)
(***************************************************************************)
C21_GridDimensions ==
    LET w == globals.SCREEN_WIDTH \div globals.CELL_SIZE
        h == globals.SCREEN_HEIGHT \div globals.CELL_SIZE
    IN  /\ globals.TERRAIN_WIDTH = w
        /\ globals.TERRAIN_HEIGHT = h
        /\ built.done =>
              /\ DOMAIN built.terrain = 0 .. w - 1
              /\ \A x \in DOMAIN built.terrain : DOMAIN built.terrain[x] = 0 .. h - 1
              /\ built.boundary = Rect_new(0, 0, w * globals.CELL_SIZE, h * globals.CELL_SIZE)
              /\ Len(built.instances) = w * h

\* a command line whose width is not a multiple of its cell size, and the
\* state that MainState::new has built for it
C21_Witness ==
    /\ built.done
    /\ globals.SCREEN_WIDTH # args.width
    /\ args.width >= MIN_WIDTH
    /\ globals.TERRAIN_WIDTH > 0
    /\ Len(built.instances) > 0

\* the step of update_effects after par_iter_mut, and the first step of the
\* closure of effect i
MergeStep == phase = "par" /\ phase' = "idle"
MoveStep(i) == i \in DOMAIN pc /\ pc[i] = "todo" /\ pc'[i] # "todo"
\* the requests that a step has pushed
Pushed == SubSeq(damage_requests', Len(damage_requests) + 1, Len(damage_requests'))
\* the places in requests that name the cell (x, y)
RequestsOn(requests, x, y) ==
    {k \in 1 .. Len(requests) : requests[k][1] = x /\ requests[k][2] = y}

(***************************************************************************)
(* C22: every request of a Lightning effect carries damage 10 and          *)
(* ignore_durability = true, every request of a Bubbles or MoreBubbles     *)
(* effect carries damage 5 and ignore_durability = false.  The merge of a  *)
(* frame leaves a cell that was not Air and has a Lightning request as Air *)
(* with durability 0, whatever its durability was (8 for Rock), and sets   *)
(* the dirty flag; a cell with n Bubbles or MoreBubbles requests only      *)
(* loses 5 * n and becomes Air with durability 0 when nothing is left.     *)
(***************************************************************************)
C22_BeamDestroys ==
    [][/\ \A i \in DOMAIN pc :
             MoveStep(i) =>
                \A k \in 1 .. Len(Pushed) :
                   IF effects[i].effect_type = "Lightning"
                   THEN Pushed[k][3] = LightningDamage /\ Pushed[k][4] = TRUE
                   ELSE Pushed[k][3] = BubbleDamage /\ Pushed[k][4] = FALSE
       /\ MergeStep =>
             \A x \in XS, y \in YS :
                LET on == RequestsOn(damage_requests, x, y)
                    cell == terrain[x][y]
                    left == cell.durability - BubbleDamage * Cardinality(on)
                IN  (on # {} /\ cell.material # "Air") =>
                       /\ quadtree_dirty'
                       /\ IF \E k \in on : damage_requests[k][4]
                          THEN terrain'[x][y] = Cell("Air", 0)
                          ELSE terrain'[x][y] =
                                  (IF left <= 0 THEN Cell("Air", 0)
                                   ELSE [cell EXCEPT !.durability = left])]_vars

\* after the frame of a single Lightning effect, a cell that was generated as
\* Rock with durability 8 is Air with durability 0 and the flag is set
C22_Witness ==
    /\ phase = "idle" /\ ticks = MaxTicks
    /\ Len(effects) = 1 /\ effects[1].effect_type = "Lightning"
    /\ quadtree_dirty
    /\ \E x \in XS, y \in YS :
          /\ GeneratedTerrain(noise_generator)[x][y] = Cell("Rock", RockDurability)
          /\ terrain[x][y] = Cell("Air", 0)

(***************************************************************************)
(* C23: a Bubbles or MoreBubbles effect with spawned = false whose spawn   *)
(* roll succeeds in a frame has spawned = true when its closure ends, and  *)
(* so at the end of that frame, whether or not the shared counter let it   *)
(* create a child.  (The roll has succeeded when the closure stands at the *)
(* load of the counter or beyond.)                                         *)
(***************************************************************************)
C23_SpawnedAfterRoll ==
    [][\A i \in DOMAIN pc :
          (pc[i] \in {"load", "loop", "push"} /\ pc'[i] = "done") => effects'[i].spawned]_vars

\* the children that a step has pushed
Born == SubSeq(new_effects', Len(new_effects) + 1, Len(new_effects'))
\* the most children one effect of a kind creates
MostChildren(effect_type) ==
    CASE effect_type = "Bubbles" -> 2
      [] effect_type = "MoreBubbles" -> MoreBubblesRounds
      [] effect_type = "Lightning" -> 0

RECURSIVE MostFamily(_, _)
\* the effects that the first n effects of the list and their children can be
MostFamily(effs, n) ==
    IF n = 0 THEN 0 ELSE 1 + MostChildren(effs[n].effect_type) + MostFamily(effs, n - 1)

(***************************************************************************)
(* C24: an effect creates children in at most one frame, and a child never *)
(* creates children.  A step pushes children only for an effect whose      *)
(* spawned flag is false, every child it pushes has spawned = true, an     *)
(* effect that has pushed a child in a frame ends its closure with spawned *)
(* = true, and no step takes the flag of an effect back to false.  In one  *)
(* frame a Bubbles effect pushes at most 2 children and a MoreBubbles      *)
(* effect at most 10, so the effects alive and pushed never outnumber the  *)
(* effects of the spawn_effect commands (the first nspawn of the list)     *)
(* with 2 or 10 children each.                                             *)
(***************************************************************************)
C24_SpawnOnce ==
    [][/\ \A i \in DOMAIN pc \cap DOMAIN pc' :
             /\ nborn'[i] > nborn[i] =>
                   /\ ~ effects[i].spawned
                   /\ Len(Born) = nborn'[i] - nborn[i]
                   /\ \A k \in 1 .. Len(Born) :
                         Born[k].spawned /\ Born[k].effect_type = effects[i].effect_type
             /\ nborn'[i] <= MostChildren(effects[i].effect_type)
             /\ (pc'[i] = "done" /\ nborn'[i] > 0) => effects'[i].spawned
       /\ Len(new_effects') > Len(new_effects) =>
             \E i \in DOMAIN pc \cap DOMAIN pc' : nborn'[i] > nborn[i]
       /\ \A i \in DOMAIN effects :
             effects[i].spawned => (i \in DOMAIN effects' /\ effects'[i].spawned)
       /\ Len(effects') + Len(new_effects') <= MostFamily(effects', nspawn')]_vars

\* the frame of one MoreBubbles parent has ended with the parent marked and its
\* ten children, all marked, in the list
C24_Witness ==
    /\ phase = "idle" /\ ticks = MaxTicks
    /\ nspawn = 1
    /\ Len(effects) = 1 + MoreBubblesRounds
    /\ \A i \in DOMAIN effects : effects[i].spawned /\ effects[i].effect_type = "MoreBubbles"

(***************************************************************************)
(* C25: a Lightning effect never pushes a child, its closure never reaches *)
(* the spawn block's load of the counter, and its spawned flag is false in *)
(* every state.  Every child pushed has the kind of the effect whose       *)
(* closure pushed it and the position of that effect, which is the         *)
(* position its advance of this frame gave it: the first step of a closure *)
(* moves its effect by the advance and no later step of the frame moves it.*)
(***************************************************************************)
C25_BeamNeverSpawns ==
    [][/\ \A i \in DOMAIN effects' :
             effects'[i].effect_type = "Lightning" => ~ effects'[i].spawned
       /\ \A k \in DOMAIN new_effects' :
             new_effects'[k].effect_type \in {"Bubbles", "MoreBubbles"}
       /\ \A i \in DOMAIN pc \cap DOMAIN pc' :
             /\ effects[i].effect_type = "Lightning" =>
                   nborn'[i] = 0 /\ pc'[i] \in {"todo", "done"}
             /\ nborn'[i] > nborn[i] =>
                   \A k \in 1 .. Len(Born) :
                      /\ Born[k].effect_type = effects[i].effect_type
                      /\ Born[k].position = effects[i].position
             /\ effects'[i].position =
                   (IF MoveStep(i) THEN Advance(effects[i]).position
                    ELSE effects[i].position)]_vars

\* in one frame a Lightning effect has been processed and a parent that has
\* moved off the place of its click has pushed a child there
C25_Witness ==
    /\ phase = "par"
    /\ \E i \in DOMAIN pc :
          effects[i].effect_type = "Lightning" /\ pc[i] = "done" /\ ~ effects[i].spawned
    /\ \E j \in DOMAIN pc :
          /\ nborn[j] > 0
          /\ effects[j].position \notin FramePositions
          /\ new_effects[1].position = effects[j].position
          /\ new_effects[1].effect_type = effects[j].effect_type

\* whether the first step of the closure of effect i ends on an intact cell
Deflected(i) ==
    LET turned == bounce(Advance(effects[i]), read_screen_width, read_screen_height)
    IN  ScanCandidates(turned, terrain,
                       QuadTree_query(terrain_quadtree, QueryRect(turned)), 1).deflected

(***************************************************************************)
(* C26: the reflection at the borders after the advance.  With (x, y) the  *)
(* position after the advance and h the heading before it, the heading of  *)
(* an effect that no terrain deflects is, up to whole turns, pi - h when   *)
(* only x is outside (x <= 0 or x >= width), -h when only y is outside (y  *)
(* <= 0 or y >= height), h - pi when both are, and h when the position is  *)
(* strictly inside; the position is the advanced position in every case.   *)
(***************************************************************************)
C26_Reflection ==
    [][\A i \in DOMAIN pc :
          MoveStep(i) =>
             LET x == Advance(effects[i]).position[1]
                 y == Advance(effects[i]).position[2]
                 h == effects[i].direction
                 outside_x == x <= 0 \/ x >= read_screen_width
                 outside_y == y <= 0 \/ y >= read_screen_height
             IN  /\ effects'[i].position = <<x, y>>
                 /\ ~ Deflected(i) =>
                       effects'[i].direction =
                          CASE outside_x /\ outside_y -> (h - PI) % TAU
                            [] outside_x /\ ~ outside_y -> (PI - h) % TAU
                            [] ~ outside_x /\ outside_y -> (0 - h) % TAU
                            [] OTHER -> h]_vars

\* a Lightning effect that headed down along the left border from (0, 299) is
\* past the lower border in the corner, heading up
C26_Witness ==
    /\ phase = "par"
    /\ \E i \in DOMAIN pc :
          /\ pc[i] = "done"
          /\ effects[i].effect_type = "Lightning"
          /\ effects[i].position[1] <= 0
          /\ effects[i].position[2] >= read_screen_height
          /\ effects[i].direction = 3

IsBoing(sound_path) == \E k \in DOMAIN BoingSounds : BoingSounds[k] = sound_path

(***************************************************************************)
(* C27: the closure of an effect queues exactly one bounce cue when the    *)
(* position after its advance is outside the arena on either axis (x <= 0, *)
(* x >= width, y <= 0 or y >= height) and none otherwise, whether or not   *)
(* terrain deflects the effect afterwards; no other step of the frame      *)
(* queues or plays a cue.  The flush at the end of the frame, which runs   *)
(* once every closure has ended, plays the queued cues, each once and in   *)
(* the order of the queue, after the sounds of the damages, and leaves the *)
(* queue empty.  (The sound files and the audio device are there.)         *)
(***************************************************************************)
C27_BounceCue ==
    [][/\ \A i \in DOMAIN pc :
             MoveStep(i) =>
                LET x == Advance(effects[i]).position[1]
                    y == Advance(effects[i]).position[2]
                    outside == \/ x <= 0 \/ x >= read_screen_width
                               \/ y <= 0 \/ y >= read_screen_height
                IN  IF outside
                    THEN /\ Len(sounds_to_play') = Len(sounds_to_play) + 1
                         /\ SubSeq(sounds_to_play', 1, Len(sounds_to_play)) = sounds_to_play
                         /\ IsBoing(sounds_to_play'[Len(sounds_to_play')])
                    ELSE sounds_to_play' = sounds_to_play
       /\ (phase = "par" /\ phase' = "par" /\ ~ \E i \in DOMAIN pc : MoveStep(i)) =>
             sounds_to_play' = sounds_to_play
       /\ (phase = "par" /\ phase' = "par") => played' = played /\ played = <<>>
       /\ MergeStep =>
             /\ \A i \in DOMAIN pc : pc[i] = "done"
             /\ SelectSeq(played', IsBoing) = sounds_to_play
             /\ SubSeq(played', Len(played') - Len(sounds_to_play) + 1, Len(played'))
                   = sounds_to_play
             /\ sounds_to_play' = <<>>]_vars

\* a frame over two effects has ended: the first is outside the left border,
\* the second went down from (250, 150), is strictly inside and no longer
\* heads down, so terrain has deflected it; exactly one bounce cue was played
C27_Witness ==
    /\ phase = "idle" /\ ticks = MaxTicks
    /\ Len(effects) >= 2
    /\ effects[1].position[1] <= 0
    /\ effects[2].position = <<250, 151>> /\ effects[2].direction # 1
    /\ Len(SelectSeq(played, IsBoing)) = 1

\* |ex - cx| + |ey - cy| for the position pos and the centroid of cell (tx, ty)
Manhattan(pos, tx, ty) == Abs(pos[1] - Center(tx)) + Abs(pos[2] - Center(ty))
\* the cells whose point is in the index
Indexed(tree) ==
    LET items == StoredItems(tree.root)
    IN  {<<items[k].tx, items[k].ty>> : k \in DOMAIN items}

(***************************************************************************)
(* C28: the closure of an effect pushes a damage request for a cell only   *)
(* if the index holds a point of the cell, the cell is not Air in the grid *)
(* and the Manhattan distance between the effect's position after the      *)
(* advance and the centroid of the cell is at most the cell size.  The     *)
(* query of the closure, a square of half-width cell size around that      *)
(* position, returns every indexed cell that is not Air and within that    *)
(* distance, and the closure pushes at most one request per cell.          *)
(***************************************************************************)
C28_ScanRequests ==
    [][\A i \in DOMAIN pc :
          MoveStep(i) =>
             LET moved == Advance(effects[i])
                 pos == moved.position
                 found == QuadTree_query(terrain_quadtree, QueryRect(moved))
             IN  /\ \A k \in 1 .. Len(Pushed) :
                       LET tx == Pushed[k][1]
                           ty == Pushed[k][2]
                       IN  /\ <<tx, ty>> \in Indexed(terrain_quadtree)
                           /\ terrain[tx][ty].material # "Air"
                           /\ Manhattan(pos, tx, ty) <= read_cell_size
                 /\ \A c \in Indexed(terrain_quadtree) :
                       (/\ terrain[c[1]][c[2]].material # "Air"
                        /\ Manhattan(pos, c[1], c[2]) <= read_cell_size) =>
                          \E k \in DOMAIN found : found[k].tx = c[1] /\ found[k].ty = c[2]
                 /\ \A k, l \in 1 .. Len(Pushed) :
                       (Pushed[k][1] = Pushed[l][1] /\ Pushed[k][2] = Pushed[l][2]) => k = l]_vars

\* the closure of a Lightning effect that went right from the middle of cell
\* (2, 1) has pushed a request for the cell at Manhattan distance 96 and none
\* for the cells at distance 104, which the square query returns as well
C28_Witness ==
    /\ phase = "par"
    /\ Len(effects) = 1 /\ pc[1] = "done"
    /\ effects[1].effect_type = "Lightning"
    /\ effects[1].position = <<254, 150>>
    /\ \E k \in DOMAIN damage_requests : damage_requests[k][1] = 3 /\ damage_requests[k][2] = 1
    /\ terrain[2][2].material # "Air"
    /\ ~ \E k \in DOMAIN damage_requests : damage_requests[k][1] = 2 /\ damage_requests[k][2] = 2

(***************************************************************************)
(* C29: deflection by terrain.  Among the candidates of the query, in the  *)
(* order the query returns them, a candidate is in range when it is not    *)
(* Air and within the Manhattan distance, and intact when it is in range,  *)
(* the effect is not a Lightning and the cell's durability minus the       *)
(* effect's damage is above 0.  The closure pushes one request for every   *)
(* candidate in range up to and including the first intact one, in that    *)
(* order, and none for a later candidate.  With no intact candidate the    *)
(* heading is the one the borders left: Air cells do not deflect, and a    *)
(* Lightning is never deflected and has a request for every candidate in   *)
(* range.  With an intact candidate the heading is the borders' heading    *)
(* plus pi plus a draw from [-pi, pi).                                     *)
(***************************************************************************)
C29_Deflection ==
    [][\A i \in DOMAIN pc :
          MoveStep(i) =>
             LET moved == Advance(effects[i])
                 kind == effects[i].effect_type
                 found == QuadTree_query(terrain_quadtree, QueryRect(moved))
                 cell(k) == terrain[found[k].tx][found[k].ty]
                 InRange(k) == /\ cell(k).material # "Air"
                               /\ Manhattan(moved.position, found[k].tx, found[k].ty)
                                     <= read_cell_size
                 Intact(k) == /\ InRange(k)
                              /\ kind # "Lightning"
                              /\ cell(k).durability - DamageOf(kind) > 0
                 intact == {k \in DOMAIN found : Intact(k)}
                 last == IF intact = {} THEN Len(found)
                         ELSE CHOOSE k \in intact : \A l \in intact : k <= l
                 scanned == {k \in 1 .. last : InRange(k)}
                 border == bounce(moved, read_screen_width, read_screen_height).direction
             IN  /\ Len(Pushed) = Cardinality(scanned)
                 /\ \A k \in scanned :
                       Pushed[Cardinality({j \in scanned : j <= k})] =
                          <<found[k].tx, found[k].ty, DamageOf(kind), kind = "Lightning">>
                 /\ IF intact = {}
                    THEN effects'[i].direction = border
                    ELSE \E draw \in DeflectDraws :
                            effects'[i].direction = (border + PI + draw) % TAU
                 /\ kind = "Lightning" => intact = {}]_vars

\* a Bubbles effect that went down from the middle of cell (2, 1) has two Rock
\* cells in range; its closure has ended with a request for one of them only
C29_Witness ==
    /\ phase = "par"
    /\ Len(effects) = 1 /\ pc[1] = "done"
    /\ effects[1].effect_type = "Bubbles"
    /\ effects[1].position = <<250, 151>>
    /\ terrain[2][1].material = "Rock" /\ terrain[2][2].material = "Rock"
    /\ Len(damage_requests) = 1

\* the orders of n requests
Orders(n) == {f \in [1 .. n -> 1 .. n] : \A a, b \in 1 .. n : f[a] = f[b] => a = b}

(***************************************************************************)
(* C30: the grid and the dirty flag that the merge of a frame leaves are   *)
(* the ones that the damage requests of the frame give when they are       *)
(* applied in any other order: every cell has the same material and the    *)
(* same durability, and the flag has the same value.                       *)
(***************************************************************************)
C30_OrderIndependent ==
    [][MergeStep =>
          \A f \in Orders(Len(damage_requests)) :
             LET reordered == [k \in 1 .. Len(damage_requests) |-> damage_requests[f[k]]]
                 st == ApplyDamages(Handler(terrain, quadtree_dirty, played), reordered,
                                    [k \in 1 .. Len(damage_requests) |-> FALSE], audio_ok)
             IN  /\ \A x \in XS, y \in YS :
                       /\ st.terrain[x][y].material = terrain'[x][y].material
                       /\ st.terrain[x][y].durability = terrain'[x][y].durability
                 /\ st.quadtree_dirty = quadtree_dirty']_vars

\* the frame of a Bubbles effect and a Lightning effect that both went down
\* from the middle of cell (2, 1) has ended: each had the Rock cell (2, 2) in
\* range, and the merge has left it Air
C30_Witness ==
    /\ phase = "idle" /\ ticks = MaxTicks
    /\ Len(effects) = 2
    /\ effects[1].effect_type = "Bubbles" /\ effects[1].position = <<250, 151>>
    /\ effects[2].effect_type = "Lightning" /\ effects[2].position = <<250, 154>>
    /\ GeneratedTerrain(noise_generator)[2][2].material = "Rock"
    /\ terrain[2][2] = Cell("Air", 0)
    /\ quadtree_dirty

(***************************************************************************)
(* C31: every closure of a frame scans the grid as it was when the frame   *)
(* started.  No step between the start of the frame and its merge changes  *)
(* the grid, and the requests and the deflection of a closure are those of *)
(* a scan of the grid at the start of the frame (here the generated grid), *)
(* whatever requests the other closures have queued before: effects in     *)
(* range of the same intact cell are all deflected by it, also when the    *)
(* merge of the frame leaves the cell Air.                                 *)
(***************************************************************************)
C31_ReadBeforeMerge ==
    [][/\ (phase = "par" /\ phase' = "par") =>
             terrain' = terrain /\ terrain = GeneratedTerrain(noise_generator)
       /\ \A i \in DOMAIN pc :
             MoveStep(i) =>
                LET turned == bounce(Advance(effects[i]), read_screen_width,
                                     read_screen_height)
                    scan == ScanCandidates(turned, GeneratedTerrain(noise_generator),
                               QuadTree_query(terrain_quadtree, QueryRect(turned)), 1)
                IN  /\ Pushed = scan.requests
                    /\ IF scan.deflected
                       THEN \E draw \in DeflectDraws :
                               effects'[i].direction = (turned.direction + PI + draw) % TAU
                       ELSE effects'[i].direction = turned.direction]_vars

\* two Bubbles effects went down from the middle of cell (2, 1); the Rock cell
\* (2, 2) has deflected both, neither heads down any more, and the merge of
\* the frame has left the cell Air
C31_Witness ==
    /\ phase = "idle" /\ ticks = MaxTicks
    /\ Len(effects) = 2
    /\ \A i \in 1 .. 2 :
          /\ effects[i].effect_type = "Bubbles"
          /\ effects[i].position = <<250, 151>>
          /\ effects[i].direction # 1
    /\ GeneratedTerrain(noise_generator)[2][2] = Cell("Rock", RockDurability)
    /\ terrain[2][2] = Cell("Air", 0)

\* the age of an effect at the time the frame took: at least the lifetime
Aged(eff) == DurationSince(now, eff.started_at) >= Lifetime
NotAged(eff) == ~ Aged(eff)

(***************************************************************************)
(* C32: an effect whose age has reached the lifetime when a frame starts   *)
(* is processed in that frame like any other.  The frame starts a closure  *)
(* for every effect of the list; the closure of an aged effect moves it by *)
(* its advance, reflects it at the borders and pushes the requests of its  *)
(* scan; the merge applies every request of the frame, those of aged       *)
(* effects included, and only then drops the aged effects from the list,   *)
(* where the children of the frame have been appended.                     *)
(***************************************************************************)
C32_ExpiredStillActive ==
    [][/\ (phase = "idle" /\ phase' = "par") =>
             /\ DOMAIN pc' = DOMAIN effects
             /\ \A i \in DOMAIN pc' : pc'[i] = "todo"
       /\ \A i \in DOMAIN pc :
             (MoveStep(i) /\ DurationSince(now, effects[i].started_at) >= Lifetime) =>
                LET moved == Advance(effects[i])
                    turned == bounce(moved, read_screen_width, read_screen_height)
                    scan == ScanCandidates(turned, terrain,
                               QuadTree_query(terrain_quadtree, QueryRect(turned)), 1)
                IN  /\ effects'[i].position = moved.position
                    /\ ~ scan.deflected => effects'[i].direction = turned.direction
                    /\ Pushed = scan.requests
       /\ MergeStep =>
             /\ \A i \in DOMAIN pc : pc[i] = "done"
             /\ terrain' = ApplyDamages(Handler(terrain, quadtree_dirty, played),
                                        damage_requests,
                                        [k \in 1 .. Len(damage_requests) |-> FALSE],
                                        audio_ok).terrain
             /\ effects' = SelectSeq(effects \o new_effects, NotAged)]_vars

\* three seconds after the one click a frame has run: the parent, aged, is
\* gone; the children it pushed in that frame are in the list, at a place the
\* parent moved to; and the grid carries the damage of its requests
C32_Witness ==
    /\ phase = "idle" /\ ticks >= 1
    /\ nspawn = 1 /\ nreset = 0
    /\ now >= Lifetime
    /\ effects # <<>>
    /\ \A i \in DOMAIN effects :
          /\ effects[i].spawned
          /\ effects[i].started_at >= Lifetime
          /\ effects[i].position \notin CanvasPoints
    /\ quadtree_dirty

(***************************************************************************)
(* C33: the samples of a generator depend only on the coordinate, the      *)
(* selected algorithm and the seed last given to new or generate: two      *)
(* generators that agree on the selected algorithm and on that seed return *)
(* equal samples at every cell, whatever calls each has taken; and         *)
(* generate leaves the selected algorithm as it is.                        *)
(***************************************************************************)
C33_SeedDetermines ==
    [][/\ (gens'[1].current_type = gens'[2].current_type /\ gens'[1].seed = gens'[2].seed) =>
             \A x \in XS, y \in YS :
                NoiseGenerator_get(gens'[1], x, y) = NoiseGenerator_get(gens'[2], x, y)
       /\ \A k \in DOMAIN gens :
             (\E s \in NoiseSeeds : gens'[k] = NoiseGenerator_generate(gens[k], s)) =>
                gens'[k].current_type = gens[k].current_type]_vars

(***************************************************************************)
(* C34: when the configured seed is not -1, the noise generator is seeded  *)
(* with exactly the configured value, at construction and by every         *)
(* generation, so that different configured seeds give different noise     *)
(* seeds; when it is -1, every generation draws a seed in [0, 100000).     *)
(***************************************************************************)
C34_SeedVerbatim ==
    IF seed = 0 - 1 THEN noise_generator.seed \in RandSeeds
    ELSE noise_generator.seed = seed

(***************************************************************************)
(* C35: the index is stale in one direction only.  In every state every    *)
(* cell of the grid that is not Air has its point in the index, and the    *)
(* query over the arena returns it; every entry of the index is the point  *)
(* of a cell of the grid, so an entry without an intact cell is the entry  *)
(* of an Air cell; and the requests that the closures of a frame have      *)
(* pushed name no cell that is Air.                                        *)
(***************************************************************************)
C35_StaleOneWay ==
    LET found == QuadTree_query(terrain_quadtree, TerrainBoundary)
        items == StoredItems(terrain_quadtree.root)
    IN  /\ \A c \in NonAirCells(terrain) :
              \E k \in DOMAIN found :
                 found[k] = QuadTreeItem(Center(c[1]), Center(c[2]), c[1], c[2])
        /\ \A k \in DOMAIN items :
              /\ InGrid(items[k].tx, items[k].ty)
              /\ items[k] = QuadTreeItem(Center(items[k].tx), Center(items[k].ty),
                                         items[k].tx, items[k].ty)
              /\ \E l \in DOMAIN found : found[l] = items[k]
        /\ phase = "par" =>
              \A k \in DOMAIN damage_requests :
                 terrain[damage_requests[k][1]][damage_requests[k][2]].material # "Air"

\* a frame has run on an index rebuilt after damage, and its merge has emptied
\* a further cell: that cell is Air in the grid and its point is still in the
\* rebuilt index, which holds no point of the cells that were Air before
C35_Witness ==
    /\ phase = "idle" /\ ticks >= 2 /\ nreset = 0
    /\ quadtree_dirty
    /\ Cardinality(Indexed(terrain_quadtree)) < NumCells
    /\ \E c \in Indexed(terrain_quadtree) : terrain[c[1]][c[2]].material = "Air"

(***************************************************************************)
(* C36, as stated: six seconds (two lifetimes) after the last click every  *)
(* effect of the list has reached the lifetime.                            *)
(***************************************************************************)
C36_WithinTwoLifetimes ==
    clock >= 2 * Lifetime =>
        \A i \in DOMAIN effects : DurationSince(clock, effects[i].started_at) >= Lifetime

(***************************************************************************)
(* C36: when no click follows, frames keep running and time advances, the  *)
(* list of effects becomes empty and stays empty.  Every effect born after *)
(* the click is a child and has spawned set, so that it has no children of *)
(* its own; a parent still runs its closure in the frame that finds it     *)
(* aged, and a child takes its start from the clock at the push, after the *)
(* frame took its time, so that a child starts up to one lifetime and one  *)
(* frame after the click: every effect has reached the lifetime two        *)
(* lifetimes and one frame after the click, and the list is empty once     *)
(* the frame after that has ended.                                         *)
(***************************************************************************)
C36_EventuallyEmpty ==
    /\ <>[](effects = <<>>)
    /\ [](\A i \in DOMAIN effects : effects[i].started_at > 0 => effects[i].spawned)
    /\ [](\A i \in DOMAIN effects : effects[i].started_at <= Lifetime + 1)
    /\ [](clock >= 2 * Lifetime + 1 =>
             \A i \in DOMAIN effects :
                 DurationSince(clock, effects[i].started_at) >= Lifetime)
    /\ []((clock >= 2 * Lifetime + 2 /\ phase = "idle") => effects = <<>>)

\* seven seconds after the click the frame runs over children that started in
\* the fifth second, pushed by the parent in the frame that dropped it
C36_Witness ==
    /\ phase = "par"
    /\ clock = 2 * Lifetime + 1
    /\ effects # <<>>
    /\ \A i \in DOMAIN effects :
          effects[i].spawned /\ effects[i].started_at = Lifetime + 1

\* the heading of eff has, on every axis on which its position is outside
\* the arena by the test of bounce, no component that points away from the
\* arena (a heading along the border passes)
HeadsBack(eff) ==
    /\ eff.position[1] <= 0 => Cos(eff.direction) >= 0
    /\ eff.position[1] >= read_screen_width => Cos(eff.direction) <= 0
    /\ eff.position[2] <= 0 => Sin(eff.direction) >= 0
    /\ eff.position[2] >= read_screen_height => Sin(eff.direction) <= 0

\* eff is outside the arena, beyond a border, on the side that pos is on
SameSide(eff, pos) ==
    \/ pos[1] < 0 /\ eff.position[1] <= 0
    \/ pos[1] > read_screen_width /\ eff.position[1] >= read_screen_width
    \/ pos[2] < 0 /\ eff.position[2] <= 0
    \/ pos[2] > read_screen_height /\ eff.position[2] >= read_screen_height

(***************************************************************************)
(* C37, as stated: when the closure of an effect has moved it, reflected   *)
(* it and scanned the terrain, the effect, if outside the arena on an      *)
(* axis, heads back into the arena on that axis; and an effect that a      *)
(* frame left beyond a border is not outside on that side after the next. *)
(***************************************************************************)
C37_HeadsBack ==
    [][\A i \in DOMAIN pc \cap DOMAIN pc' :
          MoveStep(i) =>
              /\ HeadsBack(effects'[i])
              /\ ~ SameSide(effects'[i], effects[i].position)]_vars

(***************************************************************************)
(* C38: the instance array follows the grid.  In every state it holds one  *)
(* instance per cell; the instance at index x * grid height + y is at the  *)
(* place of cell (x, y) and has the colour of the cell's material: green   *)
(* for Grass, grey for Rock, and white exactly when the cell is Air.  This *)
(* holds after a generation and after every damage, one that empties the   *)
(* cell (its instance turns white) and one that only lowers its durability *)
(* (its instance stays).                                                   *)
(***************************************************************************)
C38_InstancesMatch ==
    LET w == globals.TERRAIN_WIDTH
        h == globals.TERRAIN_HEIGHT
    IN  built.done =>
           /\ Len(built.instances) = w * h
           /\ \A x \in DOMAIN built.terrain : \A y \in DOMAIN built.terrain[x] :
                 LET inst == built.instances[x * h + y + 1]
                     mat == built.terrain[x][y].material
                 IN  /\ inst.dest = <<x * globals.CELL_SIZE, y * globals.CELL_SIZE>>
                     /\ inst.color = InstanceColor(mat)
                     /\ inst.color = White <=> mat = "Air"
                     /\ mat = "Grass" => inst.color = GrassColor
                     /\ mat = "Rock" => inst.color = RockColor

\* damages have emptied a cell that was generated as Rock, whose instance is
\* white now, and have lowered the durability of another Rock cell, whose
\* instance is still grey, in a grid that is not square
C38_Witness ==
    /\ built.done
    /\ globals.TERRAIN_WIDTH # globals.TERRAIN_HEIGHT
    /\ \E x \in XS, y \in YS :
          /\ GeneratedTerrain(noise_generator)[x][y].material = "Rock"
          /\ built.terrain[x][y].material = "Air"
          /\ built.instances[x * globals.TERRAIN_HEIGHT + y + 1].color = White
          /\ x * globals.TERRAIN_HEIGHT + y # y * globals.TERRAIN_WIDTH + x
    /\ \E x \in XS, y \in YS :
          /\ built.terrain[x][y].material = "Rock"
          /\ built.terrain[x][y].durability < RockDurability
          /\ built.instances[x * globals.TERRAIN_HEIGHT + y + 1].color = RockColor

\* the four quadrants are there exactly when the node is divided
HasQuadrants(node) ==
    /\ Len(node.northeast) = 1 /\ Len(node.northwest) = 1
    /\ Len(node.southeast) = 1 /\ Len(node.southwest) = 1

NoQuadrants(node) ==
    /\ node.northeast = <<>> /\ node.northwest = <<>>
    /\ node.southeast = <<>> /\ node.southwest = <<>>

RECURSIVE NodeSound(_, _)
\* the subtree of node is well formed for a tree of the given capacity
NodeSound(node, capacity) ==
    /\ node.capacity = capacity
    /\ Len(node.items) <= capacity
    /\ \A k \in DOMAIN node.items : Within(node.boundary, node.items[k].x, node.items[k].y)
    /\ node.divided => Len(node.items) = capacity
    /\ IF node.divided
       THEN /\ HasQuadrants(node)
            /\ LET b == node.boundary
                   w == b.w \div 2
                   h == b.h \div 2
               IN  /\ node.northeast[1].boundary = Rect_new(b.x + w, b.y, w, h)
                   /\ node.northwest[1].boundary = Rect_new(b.x, b.y, w, h)
                   /\ node.southeast[1].boundary = Rect_new(b.x + w, b.y + h, w, h)
                   /\ node.southwest[1].boundary = Rect_new(b.x, b.y + h, w, h)
            /\ \A i \in 1 .. 4 : NodeSound(Quadrants(node)[i], capacity)
       ELSE NoQuadrants(node)

RECURSIVE NodeGrows(_, _)
\* from old to new the node keeps its boundary, its capacity and its items
\* in their places, new items coming after them; a divided node stays divided
\* and the same holds of each of its quadrants
NodeGrows(old, new) ==
    /\ new.boundary = old.boundary
    /\ new.capacity = old.capacity
    /\ Len(new.items) >= Len(old.items)
    /\ SubSeq(new.items, 1, Len(old.items)) = old.items
    /\ old.divided =>
          /\ new.divided
          /\ new.items = old.items
          /\ \A i \in 1 .. 4 : NodeGrows(Quadrants(old)[i], Quadrants(new)[i])

(***************************************************************************)
(* C39: in the tree that new builds and in every tree that inserts make of *)
(* it, every node holds at most capacity items, each of them inside the    *)
(* node's boundary, edges included; a divided node is full and has its     *)
(* four quadrants, the halves of its boundary, and an undivided node has   *)
(* none; every node has the capacity of the root.  An insert leaves every  *)
(* node its boundary and capacity and the items it held, in place; a       *)
(* divided node stays divided, its own items stay its own, and the same    *)
(* holds down its quadrants.                                               *)
(***************************************************************************)
C39_NodeInvariants ==
    /\ NodeSound(qt.root, qt.root.capacity)
    /\ [][/\ NodeSound(qt'.root, qt.root.capacity)
          /\ NodeGrows(qt.root, qt'.root)]_vars

\* inserts have filled and divided the root and filled and divided one of
\* its quadrants, which holds an item on its edge
C39_Witness ==
    /\ qt.root.divided
    /\ Len(qt.root.items) = qt.root.capacity
    /\ \E i \in 1 .. 4 :
          LET q == Quadrants(qt.root)[i]
          IN  /\ q.divided
              /\ \E k \in DOMAIN q.items :
                    q.items[k].x = q.boundary.x \/ q.items[k].x = q.boundary.x + q.boundary.w
              /\ \E j \in 1 .. 4 : Quadrants(q)[j].items # <<>>

====
